---- MODULE Spec2Model ----
(***************************************************************************)
(* cloud_safe: the streaming archive pipeline.                             *)
(*                                                                         *)
(*   packer (TarCompressor.Compress)  --P1-->  [cipher --P2-->]            *)
(*     splitter --partChan--> upload workers --> multipart session --> S3  *)
(*                                                                         *)
(* Processor.Process couples the stages with io.Pipe, S3Provider           *)
(* .UploadStream runs the splitter and the worker pool.  A stream is a     *)
(* sequence of items (one item stands for one block written to a pipe);    *)
(* a chunk holds ChunkSize items.                                          *)
(***************************************************************************)
EXTENDS Integers, Sequences, FiniteSets, TLC

\* ---------------------------------------------------------------- bounds
ChunkSize == 2           \* config.ChunkSize, in items
MaxFailures == 3         \* most backend calls that fail in one run
NonceSize == 3           \* bytes of a nonce (gcm.NonceSize())
MaxFrames == 3           \* most frames EncryptStream writes in one run
MaxCalls == 4            \* most calls made on a session on its own
MaxKeyCalls == 2         \* most calls of GetEncryptionKey on one Config
MaxExtra == 2            \* bytes a key material may have beyond KeyLen
MaxSources == 2          \* most source paths of one archive
MaxPaths == 2            \* most source paths given to run
MaxTrackerCalls == 2     \* most tracker calls one goroutine makes
MaxEstimate == 3         \* largest size estimate handed to the Mega adapter
MaxOverhead == 2         \* most items a stream is longer than its estimate
MegaChunk == 1           \* the unit of the Mega library's chunk sizes

\* ------------------------------------------------------ program constants
maxRetries == 3          \* uploadPartWithRetry
baseDelay == 1           \* uploadPartWithRetry, in seconds
Footer == 99             \* the end-of-archive marker written by tar.Writer.Close
NonceItem == 1000        \* the initial nonce EncryptStream writes first
CtBase == 3000           \* a sealed frame is CtBase + 100 * nonce counter + plaintext
chunkSize == 65536       \* EncryptStream's read buffer, 64 KiB
TagSize == 16            \* what Seal adds to a chunk (the GCM tag)
ByteMod == 256           \* a byte counts modulo 256
KeyLen == 32             \* bytes of an AES-256 key (GetEncryptionKey)
DefaultByte == 100       \* a byte of the built-in default key

\* ---------------------------------------------------------------- errors
\* An error value: its kind and the backend error it wraps (0: none).
\*   canceled   ctx.Err(), or an error wrapping it with %w
\*   backend    an error returned by the S3 client, wrapped with %w
\*   exhausted  "failed to upload part after 3 attempts" (wraps nothing)
\*   closedpipe an error wrapping io.ErrClosedPipe
\*   io         a local file error
\*   rand       "failed to generate nonce" (rand.Reader failed)
\*   auth       "failed to decrypt chunk" (Open rejected the frame)
Err(k, c) == [kind |-> k, cause |-> c]
NoErr == Err("nil", 0)
IsNil(e) == e.kind = "nil"

\* ---------------------------------------------------------------- inputs
\* A source path: a single file of `size` items, or a directory holding
\* one file of `size` items.  fail = "open": os.Open of the file fails
\* (stat succeeds, the file is unreadable).
Source(k, s, f) == [kind |-> k, size |-> s, fail |-> f]

\* The settings record of a run: the source paths, config.Encrypt,
\* config.Workers, the number of backend calls the backend may fail, and
\* whether the system's random source delivers the nonce.
Settings(srcs, enc, w, f) ==
    [sources |-> srcs, encrypt |-> enc, workers |-> w, faults |-> f,
     randOk |-> TRUE, resume |-> FALSE, uploads |-> << >>,
     permanent |-> FALSE]

\* The same run on a system whose random source fails.
RandFails(s) == [s EXCEPT !.randOk = FALSE]

\* The same run against a backend whose failures are permanent (a 4xx
\* answer: access denied, no such bucket) instead of transient.
PermanentFaults(s) == [s EXCEPT !.permanent = TRUE]

\* The object name of the run (S3Config.Key) and another object name
\* with the same prefix.
Key == "backup.tar"
OtherKey == "backup.tar.old"

\* One entry of ListMultipartUploads: the upload id, the object name,
\* the part numbers the backend holds for it, and whether ListParts
\* succeeds for it.
Upload(id, key, parts, listOk) ==
    [id |-> id, key |-> key, parts |-> parts, listOk |-> listOk]

\* The same run with config.Resume set, against a bucket that holds the
\* in-progress uploads ups.
Resume(s, ups) == [s EXCEPT !.resume = TRUE, !.uploads = ups]

\* The runs of Spec.
Inputs ==
    { Settings(<< Source("file", ChunkSize + 1, "none") >>, FALSE, 2, MaxFailures),
      Settings(<< Source("file", ChunkSize + 1, "none") >>, FALSE, 1, MaxFailures),
      Settings(<< Source("file", ChunkSize, "none"),
                  Source("file", 1, "open") >>, FALSE, 2, 0),
      Settings(<< Source("file", ChunkSize + 1, "none") >>, TRUE, 2, 0),
      Settings(<< Source("dir", ChunkSize + 1, "none") >>, FALSE, 1, 0),
      Settings(<< Source("file", 1, "none") >>, FALSE, 1, 1),
      RandFails(Settings(<< Source("file", 1, "none") >>, TRUE, 1, 0)),
      Resume(Settings(<< Source("file", ChunkSize + 1, "none") >>, FALSE, 1, 0),
             << Upload(7, Key, << 1 >>, TRUE) >>),
      Resume(Settings(<< Source("file", 1, "none") >>, FALSE, 1, 1),
             << Upload(5, OtherKey, << >>, TRUE), Upload(6, Key, << 1 >>, FALSE),
                Upload(7, Key, << 1 >>, TRUE), Upload(8, Key, << >>, TRUE) >>),
      PermanentFaults(Settings(<< Source("file", ChunkSize + 1, "none") >>,
                               FALSE, 1, 1)),
      Settings(<< Source("file", ChunkSize + 1, "none") >>, FALSE, 0, 0),
      Settings(<< Source("file", ChunkSize, "none") >>, FALSE, 1, 1) }

VARIABLES
    cfg,        \* the settings record of the run
    cancelled,  \* ctx.Done() is closed
    main,       \* the goroutine running Process / UploadStream / uploadMultipart
    pk,         \* the packer goroutine (Compress and the tar writer)
    ci,         \* the cipher goroutine (EncryptStream) and its monitor
    p1rClosed,  \* pipelineReader.Close() was called
    sp,         \* the splitter goroutine and its read buffer
    partChan,   \* the chunk queue: [q, closed]
    errorChan,  \* the error channel: [q, closed]
    wk,         \* the upload workers
    mp,         \* the multipart session: [created, partNumber, parts]
    remote,     \* what the backend has seen
    tracker,    \* the progress counter's transferred value
    fails,      \* backend failures so far
    panicked,   \* a goroutine panicked (send on a closed channel)
    cs,         \* the cipher layer on its own: EncryptStream, the stored
                \* stream, DecryptStream (specification SpecCrypto)
    ss,         \* a multipart session on its own: S3MultipartUpload and
                \* its upload at the backend (specification SpecSession)
    ek,         \* the configuration's encryption key on its own
                \* (specification SpecKey)
    ar,         \* the archive writer on its own: the entries Compress
                \* emits for a source tree (specification SpecArchive)
    rn,         \* the command's run function on its own (specification
                \* SpecRun)
    tl,         \* the progress tracker's lock and the calls on it
                \* (specification SpecTracker)
    mg          \* the Mega adapter's UploadStream on its own
                \* (specification SpecMega)

Workers == 1..cfg.workers

\* The error of the n-th backend call that fails: "denied" when the
\* backend's failures are permanent, "backend" when they are transient.
BackendErr(n) == Err(IF cfg.permanent THEN "denied" ELSE "backend", n)

vars == << cfg, cancelled, main, pk, ci, p1rClosed, sp, partChan, errorChan,
           wk, mp, remote, tracker, fails, panicked, cs, ss, ek, ar,
           rn, tl, mg >>

\* ------------------------------------------------------------ the streams
\* Items of source i: its header 10*i, the header of the file inside a
\* directory 10*i + 5, content items 10*i + 1 .. 10*i + size.
Hdr(i) == 10 * i
ChildHdr(i) == 10 * i + 5
Body(i, j) == 10 * i + j

\* EstimateSize: the sum of the regular files' sizes.
RECURSIVE SumSizes(_)
SumSizes(srcs) ==
    IF srcs = << >> THEN 0 ELSE Head(srcs).size + SumSizes(Tail(srcs))

EstimateSize(srcs) == SumSizes(srcs)

\* What one Seal call produces for plaintext item x under nonce counter c.
Seal(c, x) == CtBase + 100 * c + x

\* ------------------------------------------------ the cipher layer alone
\* cs.pc: idle | encrypt | stored | received | decrypted
\* Also ss, ek, ar, rn, tl and mg outside their specifications.
Idle == [pc |-> "idle"]

\* --------------------------------------------------------------- packer
\* pk.pc: idle | hdr | copy | footer | done: the write the packer is in
\* pk.src: index of the source being packed; pk.ent: 0 the source's own
\* entry, 1 the file inside a directory; pk.off: content items written;
\* pk.twErr: the tar writer's sticky error; pk.twRem: content the current
\* entry still owes; pk.err: what Compress returns; pk.marks: the
\* end-of-archive markers the pipe has accepted.
PkInit == [pc |-> "idle", src |-> 1, ent |-> 0, off |-> 0,
           twErr |-> FALSE, twRem |-> 0, err |-> NoErr, marks |-> 0]

PkWriting == pk.pc \in {"hdr", "copy", "footer"}

\* The item the packer is writing to P1.
PkItem ==
    CASE pk.pc = "hdr" -> IF pk.ent = 0 THEN Hdr(pk.src) ELSE ChildHdr(pk.src)
      [] pk.pc = "copy" -> Body(pk.src, pk.off + 1)
      [] OTHER -> Footer

\* The deferred tarWriter.Close(): the footer is written unless the
\* writer is in error or the current entry is incomplete; after it the
\* goroutine closes pipelineWriter and publishes Compress's result.
PkTarClose(p) ==
    IF p.twErr \/ p.twRem > 0 THEN [p EXCEPT !.pc = "done"]
    ELSE [p EXCEPT !.pc = "footer"]

\* Compress returns e: the deferred tarWriter.Close() runs.
PkReturn(p, e) == PkTarClose([p EXCEPT !.err = e])

\* Top of the loop over the sources, and of the walk callback inside a
\* directory: Compress returns nil after the last source and ctx.Err()
\* when cancellation is seen (c); otherwise the entry's header is due.
PkCheck(p, c) ==
    IF p.src > Len(cfg.sources) THEN PkReturn(p, NoErr)
    ELSE IF c THEN PkReturn(p, Err("canceled", 0))
    ELSE [p EXCEPT !.pc = "hdr"]

\* The entry is finished: the walk goes on to the file inside the
\* directory, or Compress goes on to the next source.
PkNextEntry(p, c) ==
    IF cfg.sources[p.src].kind = "dir" /\ p.ent = 0
    THEN PkCheck([p EXCEPT !.ent = 1, !.off = 0], c)
    ELSE PkCheck([p EXCEPT !.src = p.src + 1, !.ent = 0, !.off = 0], c)

\* os.Open of the entry's file, after its header was written.
PkOpen(p) ==
    IF cfg.sources[p.src].fail = "open" THEN PkReturn(p, Err("io", 0))
    ELSE [p EXCEPT !.pc = "copy"]

\* The pipe accepted the packer's write; the packer runs on to its next
\* write (or to its end).
PkWritten(p, c) ==
    CASE p.pc = "hdr" ->
            IF cfg.sources[p.src].kind = "dir" /\ p.ent = 0
            THEN PkNextEntry([p EXCEPT !.twRem = 0], c)
            ELSE PkOpen([p EXCEPT !.twRem = cfg.sources[p.src].size])
      [] p.pc = "copy" ->
            IF p.off + 1 = cfg.sources[p.src].size
            THEN PkNextEntry([p EXCEPT !.off = p.off + 1, !.twRem = 0], c)
            ELSE [p EXCEPT !.off = p.off + 1, !.twRem = p.twRem - 1]
      [] OTHER -> [p EXCEPT !.pc = "done", !.marks = p.marks + 1]

\* The write failed with io.ErrClosedPipe: compressFile reports success,
\* compressDirectory returns the error; the footer write's error is dropped.
PkWriteFailed(p, c) ==
    CASE p.pc = "footer" -> [p EXCEPT !.pc = "done", !.twErr = TRUE]
      [] cfg.sources[p.src].kind = "file" ->
            PkNextEntry([p EXCEPT !.twErr = TRUE], c)
      [] OTHER -> PkReturn([p EXCEPT !.twErr = TRUE], Err("closedpipe", 0))

\* A write to P1 after Process closed pipelineReader.
PackerWriteClosed ==
    /\ PkWriting
    /\ p1rClosed
    /\ pk' = PkWriteFailed(pk, cancelled)
    /\ UNCHANGED << rn, tl, mg, ss, ek, ar, cs, cfg, cancelled, main, ci, p1rClosed, sp, partChan,
                    errorChan, wk, mp, remote, tracker, fails, panicked >>

\* --------------------------------------------------------------- cipher
\* ci.pc: idle | nonce | read | frame | done
\* ci.cnt: the nonce counter (frames sealed so far); ci.cur: the plaintext
\* of the frame being written; ci.err: what EncryptStream returns;
\* ci.monitor: the goroutine that receives from encryptionDone.
CiInit == [pc |-> "idle", cnt |-> 0, cur |-> 0, err |-> NoErr, monitor |-> "idle"]

CiWriting == ci.pc \in {"nonce", "frame"}

\* The item the cipher is writing to P2: the nonce, then one item for
\* every frame (its length prefix and its ciphertext).
CiItem == IF ci.pc = "nonce" THEN NonceItem ELSE Seal(ci.cnt, ci.cur)

\* P2 accepted the cipher's write; after a frame the nonce is
\* incremented.
CiWritten(c) ==
    IF c.pc = "nonce" THEN [c EXCEPT !.pc = "read"]
    ELSE [c EXCEPT !.pc = "read", !.cnt = c.cnt + 1]

\* reader.Read on P1 returned one block of the packer's stream.
CipherRead ==
    /\ ci.pc = "read"
    /\ PkWriting
    /\ ~p1rClosed
    /\ ci' = [ci EXCEPT !.pc = "frame", !.cur = PkItem]
    /\ pk' = PkWritten(pk, cancelled)
    /\ UNCHANGED << rn, tl, mg, ss, ek, ar, cs, cfg, cancelled, main, p1rClosed, sp, partChan,
                    errorChan, wk, mp, remote, tracker, fails, panicked >>

\* reader.Read on P1 returned io.EOF (the packer closed pipelineWriter):
\* EncryptStream returns nil and the goroutine closes encryptionWriter.
CipherEOF ==
    /\ ci.pc = "read"
    /\ pk.pc = "done"
    /\ ~p1rClosed
    /\ ci' = [ci EXCEPT !.pc = "done"]
    /\ UNCHANGED << rn, tl, mg, ss, ek, ar, cs, cfg, cancelled, main, pk, p1rClosed, sp, partChan,
                    errorChan, wk, mp, remote, tracker, fails, panicked >>

\* reader.Read on P1 after pipelineReader.Close(): "failed to read data".
CipherReadClosed ==
    /\ ci.pc = "read"
    /\ p1rClosed
    /\ ci' = [ci EXCEPT !.pc = "done", !.err = Err("closedpipe", 0)]
    /\ UNCHANGED << rn, tl, mg, ss, ek, ar, cs, cfg, cancelled, main, pk, p1rClosed, sp, partChan,
                    errorChan, wk, mp, remote, tracker, fails, panicked >>

\* The monitor goroutine receives EncryptStream's result and logs it.
CipherMonitor ==
    /\ ci.monitor = "wait"
    /\ ci.pc = "done"
    /\ ci' = [ci EXCEPT !.monitor = "done"]
    /\ UNCHANGED << rn, tl, mg, ss, ek, ar, cs, cfg, cancelled, main, pk, p1rClosed, sp, partChan,
                    errorChan, wk, mp, remote, tracker, fails, panicked >>

\* ------------------------------------------------------- the final reader
\* finalReader is encryptionReader with encryption, pipelineReader
\* without.  Its writer is the cipher or the packer.
FwWriting == IF cfg.encrypt THEN CiWriting ELSE PkWriting
FwItem == IF cfg.encrypt THEN CiItem ELSE PkItem
FwClosed == IF cfg.encrypt THEN ci.pc = "done" ELSE pk.pc = "done"
\* Process closes pipelineReader only; encryptionReader is never closed.
FrClosed == IF cfg.encrypt THEN FALSE ELSE p1rClosed

\* The writer of the final pipe completes the write the reader consumed.
FwAdvance ==
    IF cfg.encrypt
    THEN ci' = CiWritten(ci) /\ pk' = pk
    ELSE pk' = PkWritten(pk, cancelled) /\ ci' = ci

\* -------------------------------------------------------------- splitter
\* sp.pc: idle | check | read | send | sendlast | senderr | done
\* sp.buffer: the one buffer of ChunkSize items the goroutine allocates;
\* sp.n: items io.ReadFull has stored so far; sp.k: chunks read so far.
\* A partData holds a slice of sp.buffer: n is its length; idx (the
\* chunk's position in the stream) and orig (the items read for it) are
\* history for the properties, as is sp.read: all the items io.ReadFull
\* has stored, in order.
SpInit == [pc |-> "idle", n |-> 0, k |-> 0,
           buffer |-> [i \in 1..ChunkSize |-> 0], read |-> << >>]

ChanInit == [q |-> << >>, closed |-> FALSE]

PartOf(s) == [n |-> s.n, idx |-> s.k + 1,
              orig |-> SubSeq(s.buffer, 1, s.n)]

\* The goroutine returns: the deferred close(partChan) runs.
SpExit == /\ sp' = [sp EXCEPT !.pc = "done"]
          /\ partChan' = [partChan EXCEPT !.closed = TRUE]

\* select on ctx.Done() with default, at the top of the loop.
SplitterCheck ==
    /\ sp.pc = "check"
    /\ IF cancelled
       THEN SpExit
       ELSE /\ sp' = [sp EXCEPT !.pc = "read", !.n = 0]
            /\ UNCHANGED partChan
    /\ UNCHANGED << rn, tl, mg, ss, ek, ar, cs, cfg, cancelled, main, pk, ci, p1rClosed,
                    errorChan, wk, mp, remote, tracker, fails, panicked >>

\* io.ReadFull stores one more block in the buffer; a full buffer is sent.
SplitterRead ==
    /\ sp.pc = "read"
    /\ FwWriting
    /\ ~FrClosed
    /\ sp' = [sp EXCEPT !.buffer[sp.n + 1] = FwItem,
                        !.n = sp.n + 1,
                        !.read = Append(sp.read, FwItem),
                        !.pc = IF sp.n + 1 = ChunkSize THEN "send" ELSE "read"]
    /\ FwAdvance
    /\ UNCHANGED << rn, tl, mg, ss, ek, ar, cs, cfg, cancelled, main, p1rClosed, partChan,
                    errorChan, wk, mp, remote, tracker, fails, panicked >>

\* io.ReadFull returns io.EOF (n = 0) or io.ErrUnexpectedEOF (n > 0).
SplitterEOF ==
    /\ sp.pc = "read"
    /\ FwClosed
    /\ ~FrClosed
    /\ IF sp.n > 0
       THEN /\ sp' = [sp EXCEPT !.pc = "sendlast"]
            /\ UNCHANGED partChan
       ELSE SpExit
    /\ UNCHANGED << rn, tl, mg, ss, ek, ar, cs, cfg, cancelled, main, pk, ci, p1rClosed,
                    errorChan, wk, mp, remote, tracker, fails, panicked >>

\* io.ReadFull returns io.ErrClosedPipe: "failed to read data" is due.
SplitterReadClosed ==
    /\ sp.pc = "read"
    /\ FrClosed
    /\ sp' = [sp EXCEPT !.pc = "senderr"]
    /\ UNCHANGED << rn, tl, mg, ss, ek, ar, cs, cfg, cancelled, main, pk, ci, p1rClosed, partChan,
                    errorChan, wk, mp, remote, tracker, fails, panicked >>

\* partChan <- partData{data: buffer[:n], size: n}
SplitterSend ==
    /\ sp.pc \in {"send", "sendlast"}
    /\ Len(partChan.q) < cfg.workers
    /\ IF sp.pc = "send"
       THEN /\ sp' = [sp EXCEPT !.pc = "check", !.k = sp.k + 1]
            /\ partChan' = [partChan EXCEPT !.q = Append(partChan.q, PartOf(sp))]
       ELSE /\ sp' = [sp EXCEPT !.pc = "done", !.k = sp.k + 1]
            /\ partChan' = [q |-> Append(partChan.q, PartOf(sp)), closed |-> TRUE]
    /\ UNCHANGED << rn, tl, mg, ss, ek, ar, cs, cfg, cancelled, main, pk, ci, p1rClosed,
                    errorChan, wk, mp, remote, tracker, fails, panicked >>

\* errorChan <- "failed to read data: ..."; a send on the closed channel
\* panics, and the panic ends the process with all its goroutines.
SplitterSendErr ==
    /\ sp.pc = "senderr"
    /\ IF errorChan.closed
       THEN /\ panicked' = TRUE
            /\ sp' = [sp EXCEPT !.pc = "crashed"]
            /\ main' = [main EXCEPT !.pc = "crashed"]
            /\ pk' = [pk EXCEPT !.pc = "crashed"]
            /\ ci' = [ci EXCEPT !.pc = "crashed", !.monitor = "crashed"]
            /\ wk' = [w \in Workers |-> [wk[w] EXCEPT !.pc = "crashed"]]
            /\ UNCHANGED << partChan, errorChan >>
       ELSE /\ Len(errorChan.q) < cfg.workers
            /\ errorChan' = [errorChan EXCEPT
                                !.q = Append(errorChan.q, Err("closedpipe", 0))]
            /\ SpExit
            /\ UNCHANGED << panicked, main, pk, ci, wk >>
    /\ UNCHANGED << rn, tl, mg, ss, ek, ar, cs, cfg, cancelled, p1rClosed, mp, remote, tracker, fails >>

\* ------------------------------------------------- the multipart session
\* mp.err is the variable `err` of uploadMultipart that the deferred
\* cleanup closure reads: it is assigned by NewS3MultipartUpload only.
\* mp.handed: the part numbers UploadPart calls have taken, in order.
MpInit == [created |-> FALSE, partNumber |-> 1, parts |-> << >>, err |-> NoErr,
           handed |-> << >>]

\* remote.completes: the part lists of the CompleteMultipartUpload calls;
\* remote.committed: one of them succeeded; remote.aborts / creates:
\* AbortMultipartUpload / CreateMultipartUpload calls; remote.puts: the
\* bodies of the PutObject calls that succeeded; remote.putCalls: the
\* bodies of all PutObject calls.
RemoteInit == [completes |-> << >>, committed |-> FALSE, aborts |-> 0,
               creates |-> 0, puts |-> << >>, putCalls |-> << >>]

\* --------------------------------------------------------------- workers
\* wk[w].pc: idle | recv | begin | call | backoff | senderr | exit
\* part: the partData received; attempt: the loop variable of
\* uploadPartWithRetry; partNum: the number UploadPart took under the
\* mutex; err: the error the worker is about to publish; lastErr: what
\* the last UploadPart call returned; tries / okTries: UploadPart calls
\* made / succeeded for the current part; firstPn: the number the part's
\* first attempt took.
NoPart == [n |-> 0, idx |-> 0, orig |-> << >>]

WkInit == [pc |-> "idle", part |-> NoPart, attempt |-> 0, partNum |-> 0,
           err |-> NoErr, lastErr |-> NoErr, tries |-> 0, okTries |-> 0, waits |-> << >>,
           firstPn |-> 0]

\* The bytes behind part.data: a slice of the splitter's buffer.
Data(part) == SubSeq(sp.buffer, 1, part.n)

\* for part := range partChan, then the select on ctx.Done().
WorkerRecv(w) ==
    /\ wk[w].pc = "recv"
    /\ IF partChan.q # << >>
       THEN /\ partChan' = [partChan EXCEPT !.q = Tail(partChan.q)]
            /\ wk' = [wk EXCEPT ![w] =
                        IF cancelled
                        THEN [@ EXCEPT !.pc = "senderr", !.part = Head(partChan.q),
                                       !.err = Err("canceled", 0),
                                       !.tries = 0, !.okTries = 0, !.waits = << >>]
                        ELSE [@ EXCEPT !.pc = "begin", !.part = Head(partChan.q),
                                       !.attempt = 0, !.tries = 0, !.okTries = 0, !.waits = << >>]]
       ELSE /\ partChan.closed
            /\ wk' = [wk EXCEPT ![w].pc = "exit"]
            /\ UNCHANGED partChan
    /\ UNCHANGED << rn, tl, mg, ss, ek, ar, cs, cfg, cancelled, main, pk, ci, p1rClosed, sp,
                    errorChan, mp, remote, tracker, fails, panicked >>

\* UploadPartBegin without the mutex: the increment is written back from
\* the value the goroutine read in its previous call.
UploadPartBeginLostUpdate(w) ==
    /\ wk[w].pc = "begin"
    /\ wk' = [wk EXCEPT ![w].pc = "call", ![w].partNum = mp.partNumber,
                        ![w].firstPn = IF wk[w].attempt = 0 THEN mp.partNumber
                                       ELSE wk[w].firstPn]
    /\ mp' = [mp EXCEPT !.partNumber = wk[w].partNum + 1,
                        !.handed = Append(mp.handed, mp.partNumber)]
    /\ UNCHANGED << rn, tl, mg, ss, ek, ar, cs, cfg, cancelled, main, pk, ci, p1rClosed, sp, partChan,
                    errorChan, remote, tracker, fails, panicked >>

\* UploadPart, first critical section: partNum := m.partNumber; m.partNumber++
UploadPartBegin(w) ==
    /\ wk[w].pc = "begin"
    /\ wk' = [wk EXCEPT ![w].pc = "call", ![w].partNum = mp.partNumber,
                        ![w].firstPn = IF wk[w].attempt = 0 THEN mp.partNumber
                                       ELSE wk[w].firstPn]
    /\ mp' = [mp EXCEPT !.partNumber = mp.partNumber + 1,
                        !.handed = Append(mp.handed, mp.partNumber)]
    /\ UNCHANGED << rn, tl, mg, ss, ek, ar, cs, cfg, cancelled, main, pk, ci, p1rClosed, sp, partChan,
                    errorChan, remote, tracker, fails, panicked >>

\* UploadPartOk with the tracker updated by the buffer's capacity
\* instead of the part's size.
UploadPartOkCountsCapacity(w) ==
    /\ wk[w].pc = "call"
    /\ ~cancelled
    /\ mp' = [mp EXCEPT !.parts = Append(mp.parts, wk[w].partNum)]
    /\ tracker' = tracker + ChunkSize
    /\ wk' = [wk EXCEPT ![w].pc = "recv", ![w].lastErr = NoErr,
                        ![w].tries = wk[w].tries + 1,
                        ![w].okTries = wk[w].okTries + 1]
    /\ UNCHANGED << rn, tl, mg, ss, ek, ar, cs, cfg, cancelled, main, pk, ci, p1rClosed, sp, partChan,
                    errorChan, remote, fails, panicked >>

\* client.UploadPart succeeded: the part is appended to m.parts and the
\* tracker is updated; uploadPartWithRetry returns nil.  (A backend call
\* made with a cancelled context fails with the context's error.)
UploadPartOk(w) ==
    /\ wk[w].pc = "call"
    /\ ~cancelled
    /\ mp' = [mp EXCEPT !.parts = Append(mp.parts, wk[w].partNum)]
    /\ tracker' = tracker + wk[w].part.n
    /\ wk' = [wk EXCEPT ![w].pc = "recv", ![w].lastErr = NoErr,
                        ![w].tries = wk[w].tries + 1,
                        ![w].okTries = wk[w].okTries + 1]
    /\ UNCHANGED << rn, tl, mg, ss, ek, ar, cs, cfg, cancelled, main, pk, ci, p1rClosed, sp, partChan,
                    errorChan, remote, fails, panicked >>

\* The delay with the shift one too far (1 << (attempt + 1)).
DelayShiftedOnce(attempt) == baseDelay * 2 ^ (attempt + 1)

\* delay := baseDelay * time.Duration(1 << attempt), in seconds.
Delay(attempt) == baseDelay * 2 ^ attempt

\* AfterFailure with the retry bound off by one (attempt <= maxRetries - 1).
AfterFailureOffByOne(r, e) ==
    IF r.attempt <= maxRetries - 1
    THEN [r EXCEPT !.pc = "backoff", !.lastErr = e, !.tries = r.tries + 1,
                   !.waits = Append(r.waits, Delay(r.attempt))]
    ELSE [r EXCEPT !.pc = "senderr", !.lastErr = e, !.tries = r.tries + 1,
                   !.err = Err("exhausted", 0)]

\* What uploadPartWithRetry does after a failed attempt that returned e:
\* back off when attempts remain, else return the terminal error.
AfterFailure(r, e) ==
    IF r.attempt < maxRetries - 1
    THEN [r EXCEPT !.pc = "backoff", !.lastErr = e, !.tries = r.tries + 1,
                   !.waits = Append(r.waits, Delay(r.attempt))]
    ELSE [r EXCEPT !.pc = "senderr", !.lastErr = e, !.tries = r.tries + 1,
                   !.err = Err("exhausted", 0)]

\* client.UploadPart failed: with a backend error, or with the context's
\* error when the context is cancelled.
UploadPartFail(w) ==
    /\ wk[w].pc = "call"
    /\ cancelled \/ fails < cfg.faults
    /\ LET e == IF cancelled THEN Err("canceled", 0)
                ELSE BackendErr(fails + 1)
       IN wk' = [wk EXCEPT ![w] = AfterFailure(wk[w], e)]
    /\ fails' = IF cancelled THEN fails ELSE fails + 1
    /\ UNCHANGED << rn, tl, mg, ss, ek, ar, cs, cfg, cancelled, main, pk, ci, p1rClosed, sp, partChan,
                    errorChan, mp, remote, tracker, panicked >>

\* Backoff that only waits for the timer and never looks at ctx.Done().
BackoffIgnoresCancel(w) ==
    /\ wk[w].pc = "backoff"
    /\ wk' = [wk EXCEPT ![w] = [@ EXCEPT !.pc = "begin", !.attempt = @ + 1]]
    /\ UNCHANGED << rn, tl, mg, ss, ek, ar, cs, cfg, cancelled, main, pk, ci, p1rClosed, sp, partChan,
                    errorChan, mp, remote, tracker, fails, panicked >>

\* The select between ctx.Done() and time.After(delay): the goroutine is
\* parked on both channels and the first one to become ready decides, so
\* a cancellation that precedes the timer always takes the ctx.Done() case.
Backoff(w) ==
    /\ wk[w].pc = "backoff"
    /\ wk' = [wk EXCEPT ![w] =
                IF cancelled
                THEN [@ EXCEPT !.pc = "senderr", !.err = Err("canceled", 0)]
                ELSE [@ EXCEPT !.pc = "begin", !.attempt = @ + 1]]
    /\ UNCHANGED << rn, tl, mg, ss, ek, ar, cs, cfg, cancelled, main, pk, ci, p1rClosed, sp, partChan,
                    errorChan, mp, remote, tracker, fails, panicked >>

\* errorChan <- err; return (the deferred wg.Done() runs).
WorkerSendErr(w) ==
    /\ wk[w].pc = "senderr"
    /\ Len(errorChan.q) < cfg.workers
    /\ errorChan' = [errorChan EXCEPT !.q = Append(errorChan.q, wk[w].err)]
    /\ wk' = [wk EXCEPT ![w].pc = "exit"]
    /\ UNCHANGED << rn, tl, mg, ss, ek, ar, cs, cfg, cancelled, main, pk, ci, p1rClosed, sp, partChan,
                    mp, remote, tracker, fails, panicked >>

\* The goroutine that runs wg.Wait() and then close(errorChan).
Closer ==
    /\ \A w \in Workers : wk[w].pc = "exit"
    /\ ~errorChan.closed
    /\ errorChan' = [errorChan EXCEPT !.closed = TRUE]
    /\ UNCHANGED << rn, tl, mg, ss, ek, ar, cs, cfg, cancelled, main, pk, ci, p1rClosed, sp, partChan,
                    wk, mp, remote, tracker, fails, panicked >>

\* ------------------------------------------------------------------ main
\* main.pc: start | upload | sp_copy | put | range | complete |
\*          closeReader | waitCompress | returned
\* um: none | running | returned, the call of uploadMultipart;
\* uploadErr: what UploadStream returned; buf: the buffer of
\* uploadSinglePart; result: what Process returned, [stage, err].
\* No resumable upload (the nil ResumableUpload).
NoUpload == [id |-> 0, parts |-> << >>, partNumber |-> 0]

\* resumable: what CheckResumability returned to Process.
MainInit == [pc |-> "start", um |-> "none", uploadErr |-> NoErr,
             buf |-> << >>, result |-> [stage |-> "none", err |-> NoErr],
             resumable |-> NoUpload]

\* The loop of CheckResumability over the listed uploads: the first
\* upload of the object name whose parts can be listed is returned with
\* its parts and the next part number; an upload whose parts cannot be
\* listed is skipped.
RECURSIVE FirstResumable(_)
FirstResumable(ups) ==
    IF ups = << >> THEN NoUpload
    ELSE IF Head(ups).key = Key /\ Head(ups).listOk
         THEN [id |-> Head(ups).id, parts |-> Head(ups).parts,
               partNumber |-> Len(Head(ups).parts) + 1]
         ELSE FirstResumable(Tail(ups))

\* CheckResumability: nothing without config.Resume; nothing, with an
\* error that Process only logs, when ListMultipartUploads fails.
CheckResumability(listFails) ==
    IF ~cfg.resume \/ listFails THEN NoUpload
    ELSE FirstResumable(cfg.uploads)

\* EncryptStream up to its first write: the nonce is generated; when
\* that fails EncryptStream returns and the goroutine closes
\* encryptionWriter.
CiStart(c) ==
    IF cfg.randOk THEN [c EXCEPT !.pc = "nonce", !.monitor = "wait"]
    ELSE [c EXCEPT !.pc = "done", !.err = Err("rand", 0), !.monitor = "wait"]

\* Process up to the call of UploadStream: the packer goroutine, and with
\* encryption the cipher goroutine and its monitor, are started.
ProcessStart ==
    /\ main.pc = "start"
    /\ \E listFails \in IF ~cfg.resume THEN { FALSE }
                        ELSE IF cancelled THEN { TRUE }
                        ELSE IF fails < cfg.faults THEN BOOLEAN
                        ELSE { FALSE } :
          /\ main' = [main EXCEPT !.pc = "upload",
                                  !.resumable = CheckResumability(listFails)]
          /\ fails' = IF listFails /\ ~cancelled THEN fails + 1 ELSE fails
    /\ pk' = PkCheck(pk, cancelled)
    /\ ci' = IF cfg.encrypt THEN CiStart(ci) ELSE ci
    /\ UNCHANGED << rn, tl, mg, ss, ek, ar, cs, cfg, cancelled, p1rClosed, sp, partChan, errorChan,
                    wk, mp, remote, tracker, panicked >>

\* The size test with the threshold itself sent to the multipart path.
UseMultipartAtThreshold == EstimateSize(cfg.sources) >= ChunkSize

\* UploadStream: estimatedSize > s.config.ChunkSize.
UseMultipart == EstimateSize(cfg.sources) > ChunkSize

\* UploadStream -> uploadMultipart: the session is created, the workers,
\* the splitter and the closer are started.
UploadMultipartStart ==
    /\ main.pc = "upload"
    /\ UseMultipart
    /\ main' = [main EXCEPT !.pc = "range", !.um = "running"]
    /\ mp' = [mp EXCEPT !.created = TRUE, !.err = NoErr]
    /\ remote' = [remote EXCEPT !.creates = remote.creates + 1]
    /\ wk' = [w \in Workers |-> [wk[w] EXCEPT !.pc = "recv"]]
    /\ sp' = [sp EXCEPT !.pc = "check"]
    /\ UNCHANGED << rn, tl, mg, ss, ek, ar, cs, cfg, cancelled, pk, ci, p1rClosed, partChan, errorChan,
                    tracker, fails, panicked >>

\* NewS3MultipartUpload fails: "failed to create multipart upload".
UploadMultipartCreateFail ==
    /\ main.pc = "upload"
    /\ UseMultipart
    /\ fails < cfg.faults
    /\ main' = [main EXCEPT !.pc = "closeReader",
                            !.uploadErr = BackendErr(fails + 1)]
    /\ remote' = [remote EXCEPT !.creates = remote.creates + 1]
    /\ fails' = fails + 1
    /\ UNCHANGED << rn, tl, mg, ss, ek, ar, cs, cfg, cancelled, pk, ci, p1rClosed, sp, partChan, errorChan,
                    wk, mp, tracker, panicked >>

\* UploadStream -> uploadSinglePart.
UploadSinglePartStart ==
    /\ main.pc = "upload"
    /\ ~UseMultipart
    /\ main' = [main EXCEPT !.pc = "sp_copy"]
    /\ UNCHANGED << rn, tl, mg, ss, ek, ar, cs, cfg, cancelled, pk, ci, p1rClosed, sp, partChan, errorChan,
                    wk, mp, remote, tracker, fails, panicked >>

\* io.Copy(&buffer, reader) stores one more block.
SinglePartRead ==
    /\ main.pc = "sp_copy"
    /\ FwWriting
    /\ ~FrClosed
    /\ main' = [main EXCEPT !.buf = Append(main.buf, FwItem)]
    /\ FwAdvance
    /\ UNCHANGED << rn, tl, mg, ss, ek, ar, cs, cfg, cancelled, p1rClosed, sp, partChan, errorChan,
                    wk, mp, remote, tracker, fails, panicked >>

\* io.Copy returns at EOF.
SinglePartEOF ==
    /\ main.pc = "sp_copy"
    /\ FwClosed
    /\ main' = [main EXCEPT !.pc = "put"]
    /\ UNCHANGED << rn, tl, mg, ss, ek, ar, cs, cfg, cancelled, pk, ci, p1rClosed, sp, partChan, errorChan,
                    wk, mp, remote, tracker, fails, panicked >>

\* client.PutObject succeeds.
PutObjectOk ==
    /\ main.pc = "put"
    /\ ~cancelled
    /\ remote' = [remote EXCEPT !.puts = Append(remote.puts, main.buf),
                                !.putCalls = Append(remote.putCalls, main.buf)]
    /\ tracker' = tracker + Len(main.buf)
    /\ main' = [main EXCEPT !.pc = "closeReader", !.uploadErr = NoErr]
    /\ UNCHANGED << rn, tl, mg, ss, ek, ar, cs, cfg, cancelled, pk, ci, p1rClosed, sp, partChan, errorChan,
                    wk, mp, fails, panicked >>

\* client.PutObject fails: "failed to upload object".
PutObjectFail ==
    /\ main.pc = "put"
    /\ cancelled \/ fails < cfg.faults
    /\ main' = [main EXCEPT !.pc = "closeReader",
                            !.uploadErr = IF cancelled THEN Err("canceled", 0)
                                          ELSE BackendErr(fails + 1)]
    /\ fails' = IF cancelled THEN fails ELSE fails + 1
    /\ remote' = [remote EXCEPT !.putCalls = Append(remote.putCalls, main.buf)]
    /\ UNCHANGED << rn, tl, mg, ss, ek, ar, cs, cfg, cancelled, pk, ci, p1rClosed, sp, partChan, errorChan,
                    wk, mp, tracker, panicked >>

\* The deferred cleanup of uploadMultipart: Abort when `err` is not nil.
DeferredAbort(r) ==
    IF ~IsNil(mp.err) THEN [r EXCEPT !.aborts = r.aborts + 1] ELSE r

\* for uploadErr := range errorChan: the first error received is returned.
RangeError ==
    /\ main.pc = "range"
    /\ errorChan.q # << >>
    /\ errorChan' = [errorChan EXCEPT !.q = Tail(errorChan.q)]
    /\ main' = [main EXCEPT !.pc = "closeReader", !.um = "returned",
                            !.uploadErr = Head(errorChan.q)]
    /\ remote' = DeferredAbort(remote)
    /\ UNCHANGED << rn, tl, mg, ss, ek, ar, cs, cfg, cancelled, pk, ci, p1rClosed, sp, partChan,
                    wk, mp, tracker, fails, panicked >>

\* The range loop ends on the closed, drained channel.
RangeClosed ==
    /\ main.pc = "range"
    /\ errorChan.q = << >>
    /\ errorChan.closed
    /\ main' = [main EXCEPT !.pc = "complete"]
    /\ UNCHANGED << rn, tl, mg, ss, ek, ar, cs, cfg, cancelled, pk, ci, p1rClosed, sp, partChan, errorChan,
                    wk, mp, remote, tracker, fails, panicked >>

\* return multipart.Complete(ctx): the call succeeds.  (The backend
\* refuses a completion that names no part.)
CompleteOk ==
    /\ main.pc = "complete"
    /\ ~cancelled
    /\ mp.parts # << >>
    /\ remote' = DeferredAbort([remote EXCEPT
                    !.completes = Append(remote.completes, mp.parts),
                    !.committed = TRUE])
    /\ main' = [main EXCEPT !.pc = "closeReader", !.um = "returned",
                            !.uploadErr = NoErr]
    /\ UNCHANGED << rn, tl, mg, ss, ek, ar, cs, cfg, cancelled, pk, ci, p1rClosed, sp, partChan, errorChan,
                    wk, mp, tracker, fails, panicked >>

\* return multipart.Complete(ctx): "failed to complete multipart upload".
CompleteFail ==
    /\ main.pc = "complete"
    /\ cancelled \/ mp.parts = << >> \/ fails < cfg.faults
    /\ remote' = DeferredAbort([remote EXCEPT
                    !.completes = Append(remote.completes, mp.parts)])
    /\ main' = [main EXCEPT !.pc = "closeReader", !.um = "returned",
                            !.uploadErr = IF cancelled THEN Err("canceled", 0)
                                          ELSE IF mp.parts = << >>
                                          THEN Err("denied", 0)
                                          ELSE BackendErr(fails + 1)]
    /\ fails' = IF cancelled \/ mp.parts = << >> THEN fails ELSE fails + 1
    /\ UNCHANGED << rn, tl, mg, ss, ek, ar, cs, cfg, cancelled, pk, ci, p1rClosed, sp, partChan, errorChan,
                    wk, mp, tracker, panicked >>

\* pipelineReader.Close()
ProcessCloseReader ==
    /\ main.pc = "closeReader"
    /\ p1rClosed' = TRUE
    /\ main' = [main EXCEPT !.pc = "waitCompress"]
    /\ UNCHANGED << rn, tl, mg, ss, ek, ar, cs, cfg, cancelled, pk, ci, sp, partChan, errorChan,
                    wk, mp, remote, tracker, fails, panicked >>

\* What Process returns from the two results it collects.
ProcessResult(compressionErr, uploadErr) ==
    IF ~IsNil(compressionErr) THEN [stage |-> "compression", err |-> compressionErr]
    ELSE IF ~IsNil(uploadErr) THEN [stage |-> "upload", err |-> uploadErr]
    ELSE [stage |-> "ok", err |-> NoErr]

\* compressionErr := <-compressionDone, then Process returns.
ProcessReturn ==
    /\ main.pc = "waitCompress"
    /\ pk.pc = "done"
    /\ main' = [main EXCEPT !.pc = "returned",
                            !.result = ProcessResult(pk.err, main.uploadErr)]
    /\ UNCHANGED << rn, tl, mg, ss, ek, ar, cs, cfg, cancelled, pk, ci, p1rClosed, sp, partChan, errorChan,
                    wk, mp, remote, tracker, fails, panicked >>

\* The cancellation token fires (an interrupt) while Process is running.
Cancel ==
    /\ ~cancelled
    /\ main.pc \notin {"returned", "crashed"}
    /\ cancelled' = TRUE
    /\ UNCHANGED << rn, tl, mg, ss, ek, ar, cs, cfg, main, pk, ci, p1rClosed, sp, partChan, errorChan,
                    wk, mp, remote, tracker, fails, panicked >>

\* --------------------------------------------------------- specification
Init ==
    /\ cfg \in Inputs
    /\ cancelled = FALSE
    /\ main = MainInit
    /\ pk = PkInit
    /\ ci = CiInit
    /\ p1rClosed = FALSE
    /\ sp = SpInit
    /\ partChan = ChanInit
    /\ errorChan = ChanInit
    /\ wk = [w \in Workers |-> WkInit]
    /\ mp = MpInit
    /\ remote = RemoteInit
    /\ tracker = 0
    /\ fails = 0
    /\ panicked = FALSE
    /\ cs = Idle
    /\ ss = Idle
    /\ ek = Idle
    /\ ar = Idle
    /\ rn = Idle
    /\ tl = Idle
    /\ mg = Idle

Next ==
    \/ ProcessStart
    \/ PackerWriteClosed
    \/ CipherRead
    \/ CipherEOF
    \/ CipherReadClosed
    \/ CipherMonitor
    \/ UploadMultipartStart
    \/ UploadMultipartCreateFail
    \/ UploadSinglePartStart
    \/ SinglePartRead
    \/ SinglePartEOF
    \/ PutObjectOk
    \/ PutObjectFail
    \/ SplitterCheck
    \/ SplitterRead
    \/ SplitterEOF
    \/ SplitterReadClosed
    \/ SplitterSend
    \/ SplitterSendErr
    \/ \E w \in Workers : WorkerRecv(w)
    \/ \E w \in Workers : UploadPartBegin(w)
    \/ \E w \in Workers : UploadPartOk(w)
    \/ \E w \in Workers : UploadPartFail(w)
    \/ \E w \in Workers : Backoff(w)
    \/ \E w \in Workers : WorkerSendErr(w)
    \/ Closer
    \/ RangeError
    \/ RangeClosed
    \/ CompleteOk
    \/ CompleteFail
    \/ ProcessCloseReader
    \/ ProcessReturn
    \/ Cancel

Spec == Init /\ [][Next]_vars

\* Fair scheduling: a goroutine that can take a step takes one, and a
\* backend call or a file read that was made returns. Cancellation is
\* the environment's step and nothing makes it happen.
Progress == Next /\ cancelled' = cancelled

SpecFair == Spec /\ WF_vars(Progress)

\* ---------------------------------------------------- the cipher layer
\* EncryptStream and DecryptStream as functions of their reader: the
\* plaintext is PlainLen bytes, a chunk of it is the segment [off, n]
\* (n bytes from offset off), a nonce is a sequence of NonceSize bytes.

\* What Seal produces: the chunk bound to the key and the nonce; ok is
\* FALSE once a bit of the ciphertext or of its tag was changed.
GcmSeal(key, nonce, chunk) ==
    [key |-> key, nonce |-> nonce, chunk |-> chunk, ok |-> TRUE]

\* len(encrypted)
CtLen(ct) == ct.chunk.n + TagSize

\* Open authenticates: it succeeds on an unmodified ciphertext under the
\* key and the nonce it was sealed with.
GcmOpens(key, nonce, ct) == ct.ok /\ ct.key = key /\ ct.nonce = nonce

\* The four bytes of a length, least significant byte first.
SizeBytesLittleEndian(len) ==
    << len % ByteMod, (len \div 256) % ByteMod,
       (len \div 65536) % ByteMod, (len \div 16777216) % ByteMod >>

\* sizeBytes[0..3] of EncryptStream: the four bytes of a length.
SizeBytes(len) ==
    << (len \div 16777216) % ByteMod, (len \div 65536) % ByteMod,
       (len \div 256) % ByteMod, len % ByteMod >>

\* chunkSize of DecryptStream: the length the four bytes stand for.
DecodeSize(b) == b[1] * 16777216 + b[2] * 65536 + b[3] * 256 + b[4]

\* The loop "for i := len(nonce) - 1; i >= 0; i--" from index i down:
\* nonce[i]++, and stop at the first byte that did not wrap to 0.
RECURSIVE IncrementFrom(_, _)
IncrementFrom(nonce, i) ==
    IF i = 0 THEN nonce
    ELSE LET b == (nonce[i] + 1) % ByteMod
         IN IF b # 0 THEN [nonce EXCEPT ![i] = b]
            ELSE IncrementFrom([nonce EXCEPT ![i] = b], i - 1)

\* The increment without the carry: the last byte only.
IncrementNonceNoCarry(nonce) ==
    [nonce EXCEPT ![Len(nonce)] = (nonce[Len(nonce)] + 1) % ByteMod]

\* Increment nonce for next chunk.
IncrementNonce(nonce) == IncrementFrom(nonce, Len(nonce))

\* The initial nonces of the runs: k trailing bytes 0xFF after bytes b.
Nonces ==
    { [i \in 1..NonceSize |-> IF i > NonceSize - k THEN ByteMod - 1 ELSE b] :
        k \in 0..NonceSize, b \in {0, 7} }

\* The plaintext lengths of the runs.
PlainLens == {0, 1, 2, chunkSize, chunkSize + 1}

Keys == {1, 2}

Min(a, b) == IF a < b THEN a ELSE b

\* The counts a Read into the chunkSize buffer may return with `rem` bytes
\* left in the source.
ReadSizes(rem) == {0, 1, Min(rem, chunkSize)} \cap 0..Min(rem, chunkSize)

\* EncryptStream is entered: the key, the plaintext behind the reader and
\* the random nonce are the inputs.
CsStart(key, len, nonce) ==
    [pc |-> "encrypt", key |-> key, plainLen |-> len,
     nonce0 |-> nonce, nonce |-> nonce, pos |-> 0,
     frames |-> << >>, encErr |-> NoErr,
     tamper |-> [kind |-> "none", i |-> 0, j |-> 0], wire |-> << >>,
     written |-> << >>, decErr |-> NoErr]

\* One pass of EncryptStream's loop in which Read returned n bytes and no
\* error: the chunk is sealed, its length and the ciphertext are written,
\* the nonce is incremented.
EncryptChunk(c, n) ==
    LET encrypted == GcmSeal(c.key, c.nonce, [off |-> c.pos, n |-> n])
    IN [c EXCEPT !.frames = Append(c.frames,
                                [size |-> SizeBytes(CtLen(encrypted)),
                                 ct |-> encrypted]),
                 !.nonce = IncrementNonce(c.nonce),
                 !.pos = c.pos + n]

pipeVars == << cfg, cancelled, main, pk, ci, p1rClosed, sp, partChan,
               errorChan, wk, mp, remote, tracker, fails, panicked >>

\* reader.Read returned n bytes and a nil error.
EncryptRead ==
    /\ cs.pc = "encrypt"
    /\ Len(cs.frames) < MaxFrames
    /\ \E n \in ReadSizes(cs.plainLen - cs.pos) : cs' = EncryptChunk(cs, n)
    /\ UNCHANGED << rn, tl, mg, pipeVars, ss, ek, ar >>

\* reader.Read returned io.EOF: the source is exhausted (the pipe Process
\* hands to EncryptStream reports the end by a read of no bytes), the
\* loop ends and EncryptStream returns nil.
EncryptEOF ==
    /\ cs.pc = "encrypt"
    /\ cs.pos = cs.plainLen
    /\ cs' = [cs EXCEPT !.pc = "stored"]
    /\ UNCHANGED << rn, tl, mg, pipeVars, ss, ek, ar >>

\* What can happen to the frames of the stored stream before it is read
\* back: nothing, or one of the manipulations of an attacker.
Tampers(f) ==
    { [kind |-> "none", i |-> 0, j |-> 0] }
    \cup { [kind |-> "modify", i |-> i, j |-> 0] : i \in 1..Len(f) }
    \cup { [kind |-> "swap", i |-> p[1], j |-> p[2]] :
              p \in { q \in (1..Len(f)) \X (1..Len(f)) : q[1] < q[2] } }
    \cup { [kind |-> "duplicate", i |-> i, j |-> 0] : i \in 1..Len(f) }
    \cup { [kind |-> "remove", i |-> i, j |-> 0] : i \in 1..Len(f) }

Tampered(t, f) ==
    CASE t.kind = "modify" -> [f EXCEPT ![t.i].ct.ok = FALSE]
      [] t.kind = "swap" ->
            [k \in 1..Len(f) |-> IF k = t.i THEN f[t.j]
                                 ELSE IF k = t.j THEN f[t.i] ELSE f[k]]
      [] t.kind = "duplicate" ->
            SubSeq(f, 1, t.i) \o << f[t.i] >> \o SubSeq(f, t.i + 1, Len(f))
      [] t.kind = "remove" ->
            SubSeq(f, 1, t.i - 1) \o SubSeq(f, t.i + 1, Len(f))
      [] OTHER -> f

\* The stream is stored and fetched again.
Transmit ==
    /\ cs.pc = "stored"
    /\ \E t \in Tampers(cs.frames) :
          cs' = [cs EXCEPT !.pc = "received", !.tamper = t,
                           !.wire = Tampered(t, cs.frames)]
    /\ UNCHANGED << rn, tl, mg, pipeVars, ss, ek, ar >>

\* DecryptStream's loop over the frames that follow the nonce: at the end
\* of the stream it returns nil; a frame whose bytes are not what its
\* length announces, or that Open rejects, ends it with an error.
RECURSIVE DecryptFrames(_, _, _, _)
DecryptFrames(key, nonce, wire, written) ==
    IF wire = << >> THEN [err |-> NoErr, written |-> written]
    ELSE LET f == Head(wire)
         IN IF DecodeSize(f.size) # CtLen(f.ct)
            THEN [err |-> Err("io", 0), written |-> written]
            ELSE IF ~GcmOpens(key, nonce, f.ct)
            THEN [err |-> Err("auth", 0), written |-> written]
            ELSE DecryptFrames(key, IncrementNonce(nonce), Tail(wire),
                               Append(written, f.ct.chunk))

\* DecryptStream reads the nonce, then the frames.
DecryptStream(key, nonce, wire) == DecryptFrames(key, nonce, wire, << >>)

Decrypt ==
    /\ cs.pc = "received"
    /\ LET r == DecryptStream(cs.key, cs.nonce0, cs.wire)
       IN cs' = [cs EXCEPT !.pc = "decrypted", !.written = r.written,
                           !.decErr = r.err]
    /\ UNCHANGED << rn, tl, mg, pipeVars, ss, ek, ar >>

InitCrypto ==
    /\ cfg = Settings(<< >>, TRUE, 1, 0)
    /\ cancelled = FALSE
    /\ main = MainInit
    /\ pk = PkInit
    /\ ci = CiInit
    /\ p1rClosed = FALSE
    /\ sp = SpInit
    /\ partChan = ChanInit
    /\ errorChan = ChanInit
    /\ wk = [w \in Workers |-> WkInit]
    /\ mp = MpInit
    /\ remote = RemoteInit
    /\ tracker = 0
    /\ fails = 0
    /\ panicked = FALSE
    /\ cs \in { CsStart(k, l, n) : k \in Keys, l \in PlainLens, n \in Nonces }
    /\ ss = Idle
    /\ ek = Idle
    /\ ar = Idle
    /\ rn = Idle
    /\ tl = Idle
    /\ mg = Idle

NextCrypto ==
    \/ EncryptRead
    \/ EncryptEOF
    \/ Transmit
    \/ Decrypt

SpecCrypto == InitCrypto /\ [][NextCrypto]_vars

\* ------------------------------------------------ a multipart session alone
\* The pipeline before Process is called, with the settings s.
AtRest(s) ==
    /\ cfg = s
    /\ cancelled = FALSE
    /\ main = MainInit
    /\ pk = PkInit
    /\ ci = CiInit
    /\ p1rClosed = FALSE
    /\ sp = SpInit
    /\ partChan = ChanInit
    /\ errorChan = ChanInit
    /\ wk = [w \in 1..s.workers |-> WkInit]
    /\ mp = MpInit
    /\ remote = RemoteInit
    /\ tracker = 0
    /\ fails = 0
    /\ panicked = FALSE

\* NewS3MultipartUpload returned a session: partNumber is 1, parts is
\* empty, the upload exists at the backend. stored: the part numbers the
\* backend holds; calls: the calls made on the session; last: the last
\* call and whether the backend accepted it; abortResults: what each call
\* of Abort returned.
SsStart ==
    [pc |-> "open", partNumber |-> 1, parts |-> << >>, exists |-> TRUE,
     stored |-> {}, committed |-> FALSE, calls |-> 0, abortResults |-> << >>,
     last |-> [call |-> "none", ok |-> TRUE]]

\* What Abort leaves behind: the session's fields and the backend's.
SsState(x) ==
    [partNumber |-> x.partNumber, parts |-> x.parts, exists |-> x.exists,
     stored |-> x.stored, committed |-> x.committed]

\* UploadPart: the next part number is taken; the part is recorded only
\* when the backend accepted it.
UploadPart ==
    /\ ss.pc = "open"
    /\ ss.calls < MaxCalls
    /\ \E ok \in BOOLEAN :
          ss' = IF ok /\ ss.exists
                THEN [ss EXCEPT !.partNumber = ss.partNumber + 1,
                                !.parts = Append(ss.parts, ss.partNumber),
                                !.stored = ss.stored \cup { ss.partNumber },
                                !.last = [call |-> "UploadPart", ok |-> TRUE],
                                !.calls = ss.calls + 1]
                ELSE [ss EXCEPT !.partNumber = ss.partNumber + 1,
                                !.last = [call |-> "UploadPart", ok |-> FALSE],
                                !.calls = ss.calls + 1]
    /\ UNCHANGED << rn, tl, mg, pipeVars, cs, ek, ar >>

\* Complete: the recorded parts are sent to the backend as they are.
Complete ==
    /\ ss.pc = "open"
    /\ ss.calls < MaxCalls
    /\ \E ok \in BOOLEAN :
          ss' = IF ok /\ ss.exists
                THEN [ss EXCEPT !.committed = TRUE, !.exists = FALSE,
                                !.last = [call |-> "Complete", ok |-> TRUE],
                                !.calls = ss.calls + 1]
                ELSE [ss EXCEPT !.last = [call |-> "Complete", ok |-> FALSE],
                                !.calls = ss.calls + 1]
    /\ UNCHANGED << rn, tl, mg, pipeVars, cs, ek, ar >>

\* Abort: AbortMultipartUpload is sent; when it fails Abort returns
\* "failed to abort multipart upload: %w", else nil. The session's own
\* fields are not touched.
Abort ==
    /\ ss.pc = "open"
    /\ ss.calls < MaxCalls
    /\ \E ok \in BOOLEAN :
          LET after == IF ok THEN [ss EXCEPT !.exists = FALSE, !.stored = {}]
                       ELSE ss
          IN ss' = [after EXCEPT
                      !.calls = ss.calls + 1,
                      !.last = [call |-> "Abort", ok |-> ok],
                      !.abortResults =
                          Append(ss.abortResults,
                                 IF ok THEN NoErr
                                 ELSE Err("backend", ss.calls + 1))]
    /\ UNCHANGED << rn, tl, mg, pipeVars, cs, ek, ar >>

InitSession ==
    /\ AtRest(Settings(<< >>, FALSE, 1, 0))
    /\ cs = Idle
    /\ ss = SsStart
    /\ ek = Idle
    /\ ar = Idle
    /\ rn = Idle
    /\ tl = Idle
    /\ mg = Idle

NextSession ==
    \/ UploadPart
    \/ Complete
    \/ Abort

SpecSession == InitSession /\ [][NextSession]_vars

\* ---------------------------------------------------- the encryption key
\* Key material of n bytes: byte i is i. The built-in default key has
\* KeyLen bytes, each DefaultByte.
Material(n) == [i \in 1..n |-> i]
DefaultKey == [i \in 1..KeyLen |-> DefaultByte]

\* The lengths of the key material of the environment and of the
\* configuration file; an empty one is an unset one.
MaterialLens == 0..(KeyLen + MaxExtra)

\* The Config after LoadFromFile: c.EncryptionKey is the file's
\* encryption_key when the file has one. env: ENCRYPTION_KEY; results:
\* what the calls of GetEncryptionKey returned.
EkStart(fileLen, envLen) ==
    [pc |-> "loaded", file |-> Material(fileLen), env |-> Material(envLen),
     EncryptionKey |-> Material(fileLen), results |-> << >>]

\* make([]byte, KeyLen) and copy: the key followed by zero bytes.
ZeroPad(key) ==
    [i \in 1..KeyLen |-> IF i <= Len(key) THEN key[i] ELSE 0]

\* The body of GetEncryptionKey: the field it leaves in c.EncryptionKey
\* and returns. Only an empty field is filled, padded and truncated.
EncryptionKeyOf(c) ==
    IF Len(c.EncryptionKey) = 0
    THEN LET key == IF c.env = << >> THEN DefaultKey ELSE c.env
         IN IF Len(key) < KeyLen THEN ZeroPad(key)
            ELSE IF Len(key) > KeyLen THEN SubSeq(key, 1, KeyLen)
            ELSE key
    ELSE c.EncryptionKey

GetEncryptionKey ==
    /\ ek.pc = "loaded"
    /\ Len(ek.results) < MaxKeyCalls
    /\ ek' = [ek EXCEPT !.EncryptionKey = EncryptionKeyOf(ek),
                        !.results = Append(ek.results, EncryptionKeyOf(ek))]
    /\ UNCHANGED << rn, tl, mg, pipeVars, cs, ss, ar >>

InitKey ==
    /\ AtRest(Settings(<< >>, TRUE, 1, 0))
    /\ cs = Idle
    /\ ss = Idle
    /\ ek \in { EkStart(f, e) : f \in MaterialLens, e \in MaterialLens }
    /\ ar = Idle
    /\ rn = Idle
    /\ tl = Idle
    /\ mg = Idle

NextKey == GetEncryptionKey

SpecKey == InitKey /\ [][NextKey]_vars

\* ------------------------------------------------ the archive's entries
\* A path is the sequence of its components; a file name is a number and
\* names sort as numbers. The sources lie in the directory Parent, files
\* also in a second directory.
Names == { 1, 2 }
Parent == << 0 >>

\* The tree below a directory source: top[n] says what the name n is in
\* the directory, kids[n] are the files of the subdirectory n.
Trees ==
    { t \in [top : [Names -> { "absent", "file", "dir" }],
             kids : [Names -> SUBSET Names]] :
        \A n \in Names : t.top[n] # "dir" => t.kids[n] = {} }
NoTree == [top |-> [n \in Names |-> "absent"], kids |-> [n \in Names |-> {}]]

\* A source path of Compress: what os.Stat says it is, and its tree.
SourcePaths ==
    { [path |-> d \o << b >>, isDir |-> FALSE, tree |-> NoTree] :
          d \in { Parent, << 3 >> }, b \in Names }
    \cup { [path |-> Parent \o << b >>, isDir |-> TRUE, tree |-> t] :
               b \in Names, t \in Trees }

\* The lists of up to n source paths in which a path that is named
\* twice is the same thing both times.
RECURSIVE SourceLists(_)
SourceLists(n) ==
    IF n = 0 THEN { << >> }
    ELSE { << >> }
         \cup { << p[1] >> \o p[2] :
                   p \in { q \in SourcePaths \X SourceLists(n - 1) :
                             \A k \in 1..Len(q[2]) :
                                q[2][k].path = q[1].path => q[2][k] = q[1] } }

\* filepath.Base, and filepath.Rel for a path below sourcePath ("." is
\* the empty sequence).
Base(path) == path[Len(path)]
Rel(sourcePath, path) == SubSeq(path, Len(sourcePath) + 1, Len(path))

\* What the file system holds at path below the source src.
IsDir(src, path) ==
    LET rel == Rel(src.path, path)
    IN \/ rel = << >>
       \/ Len(rel) = 1 /\ src.tree.top[rel[1]] = "dir"
DirNames(src, path) ==
    LET rel == Rel(src.path, path)
    IN IF rel = << >> THEN { n \in Names : src.tree.top[n] # "absent" }
       ELSE src.tree.kids[rel[1]]

\* readDirNames: the names of a directory, sorted.
RECURSIVE SortNames(_)
SortNames(S) ==
    IF S = {} THEN << >>
    ELSE LET m == CHOOSE x \in S : \A y \in S : x <= y
         IN << m >> \o SortNames(S \ { m })

\* The header.Name compressDirectory gives the entry of path, without
\* the directory name in front.
DirHeaderNameWithoutBase(sourcePath, path) ==
    LET relPath == Rel(sourcePath, path)
    IN IF relPath = << >>
       THEN [parts |-> << Base(sourcePath) >>, slash |-> TRUE]
       ELSE [parts |-> relPath, slash |-> FALSE]

\* The header.Name compressDirectory gives the entry of path: dirName +
\* "/" for the source itself, else dirName + "/" + the relative path
\* with "/" between its components.
DirHeaderName(sourcePath, path) ==
    LET relPath == Rel(sourcePath, path)
    IN IF relPath = << >>
       THEN [parts |-> << Base(sourcePath) >>, slash |-> TRUE]
       ELSE [parts |-> << Base(sourcePath) >> \o relPath, slash |-> FALSE]

\* The header.Name compressFile gives its entry.
FileHeaderName(filePath) == [parts |-> << Base(filePath) >>, slash |-> FALSE]

\* filepath.Walk: the callback runs for path, then, when path is a
\* directory, Walk runs for each of its names in sorted order.
RECURSIVE Walk(_, _)
RECURSIVE WalkNames(_, _, _)
Walk(src, path) ==
    << DirHeaderName(src.path, path) >>
    \o (IF IsDir(src, path)
        THEN WalkNames(src, path, SortNames(DirNames(src, path)))
        ELSE << >>)
WalkNames(src, path, names) ==
    IF names = << >> THEN << >>
    ELSE Walk(src, path \o << Head(names) >>)
         \o WalkNames(src, path, Tail(names))

\* compressDirectory and compressFile: the names of the entries written
\* for one source.
compressDirectory(src) == Walk(src, src.path)
compressFile(src) == << FileHeaderName(src.path) >>

\* The loop of Compress over sourcePaths from the i-th on: the entries
\* written, each with the index of its source.
RECURSIVE CompressFrom(_, _)
CompressFrom(sourcePaths, i) ==
    IF i > Len(sourcePaths) THEN << >>
    ELSE LET names == IF sourcePaths[i].isDir
                      THEN compressDirectory(sourcePaths[i])
                      ELSE compressFile(sourcePaths[i])
         IN [k \in 1..Len(names) |-> [src |-> i, name |-> names[k]]]
            \o CompressFrom(sourcePaths, i + 1)

\* Compress runs to its end on ar.sources.
Compress ==
    /\ ar.pc = "start"
    /\ ar' = [ar EXCEPT !.pc = "done",
                        !.entries = CompressFrom(ar.sources, 1)]
    /\ UNCHANGED << rn, tl, mg, pipeVars, cs, ss, ek >>

\* Compress is called once more on the same sources.
CompressAgain ==
    /\ ar.pc = "done"
    /\ ar' = [ar EXCEPT !.pc = "again",
                        !.second = CompressFrom(ar.sources, 1)]
    /\ UNCHANGED << rn, tl, mg, pipeVars, cs, ss, ek >>

InitArchive ==
    /\ AtRest(Settings(<< >>, FALSE, 1, 0))
    /\ cs = Idle
    /\ ss = Idle
    /\ ek = Idle
    /\ ar \in { [pc |-> "start", sources |-> l, entries |-> << >>,
                  second |-> << >>] : l \in SourceLists(MaxSources) \ { << >> } }
    /\ rn = Idle
    /\ tl = Idle
    /\ mg = Idle

NextArchive ==
    \/ Compress
    \/ CompressAgain

SpecArchive == InitArchive /\ [][NextArchive]_vars

\* -------------------------------------------------- the run function
\* The storage providers NewStorageProvider knows, and one it does not.
Providers == { "s3", "gdrive", "mega", "minio", "other" }

\* What LoadFromFile returns: nil, an os.IsNotExist error, another error.
LoadResults == { "ok", "absent", "broken" }

\* cfg.SourcePaths: for each path whether it exists.
RECURSIVE PathLists(_)
PathLists(n) ==
    IF n = 0 THEN { << >> }
    ELSE { << >> } \cup { << b >> \o l : b \in BOOLEAN, l \in PathLists(n - 1) }

\* run at its entry. provider: cfg.StorageProvider; load: what
\* LoadFromFile returns; paths: cfg.SourcePaths; filename: cfg.S3Filename
\* is set; createOk / processOk: NewProcessor / Process return nil;
\* ctx: none | live | cancelled; end: none | returned | exited;
\* err: run returned an error; processed: Process returned nil.
RnStart(provider, load, paths, filename, createOk, processOk) ==
    [pc |-> "load", provider |-> provider, load |-> load, paths |-> paths,
     filename |-> filename, createOk |-> createOk, processOk |-> processOk,
     ctx |-> "none", end |-> "none", err |-> FALSE, processed |-> FALSE]

\* run returns: the deferred cancel() runs when it was registered.
RnReturn(r, err) ==
    [r EXCEPT !.pc = "done", !.end = "returned", !.err = err,
              !.ctx = IF r.ctx = "none" THEN "none" ELSE "cancelled"]

\* cfg.LoadFromFile(cfgFile): an error other than os.IsNotExist ends run.
RunLoadConfig ==
    /\ rn.pc = "load"
    /\ rn' = IF rn.load = "broken" THEN RnReturn(rn, TRUE)
             ELSE [rn EXCEPT !.pc = "validate"]
    /\ UNCHANGED << tl, mg, pipeVars, cs, ss, ek, ar >>

\* The checks of the source paths and the file name; then the context
\* is created, cancel is deferred and the signal handler is installed.
RunValidate ==
    /\ rn.pc = "validate"
    /\ rn' = IF \/ rn.paths = << >>
                \/ ~rn.filename
                \/ \E i \in 1..Len(rn.paths) : ~rn.paths[i]
             THEN RnReturn(rn, TRUE)
             ELSE [rn EXCEPT !.pc = "create", !.ctx = "live"]
    /\ UNCHANGED << tl, mg, pipeVars, cs, ss, ek, ar >>

\* pipeline.NewProcessor(cfg, log)
RunNewProcessor ==
    /\ rn.pc = "create"
    /\ rn' = IF rn.createOk /\ rn.provider # "other"
             THEN [rn EXCEPT !.pc = "process"]
             ELSE RnReturn(rn, TRUE)
    /\ UNCHANGED << tl, mg, pipeVars, cs, ss, ek, ar >>

\* processor.Process(ctx)
RunProcess ==
    /\ rn.pc = "process"
    /\ rn' = IF rn.processOk
             THEN [rn EXCEPT !.pc = "finish", !.processed = TRUE]
             ELSE RnReturn(rn, TRUE)
    /\ UNCHANGED << tl, mg, pipeVars, cs, ss, ek, ar >>

\* After a successful Process: os.Exit(0) for the mega provider, else
\* return nil.
RunFinish ==
    /\ rn.pc = "finish"
    /\ rn' = IF rn.provider = "mega"
             THEN [rn EXCEPT !.pc = "done", !.end = "exited"]
             ELSE RnReturn(rn, FALSE)
    /\ UNCHANGED << tl, mg, pipeVars, cs, ss, ek, ar >>

\* SIGINT or SIGTERM arrives: the handler goroutine calls cancel().
Interrupt ==
    /\ rn.pc \in { "create", "process", "finish" }
    /\ rn.ctx = "live"
    /\ rn' = [rn EXCEPT !.ctx = "cancelled"]
    /\ UNCHANGED << tl, mg, pipeVars, cs, ss, ek, ar >>

InitRun ==
    /\ AtRest(Settings(<< >>, FALSE, 1, 0))
    /\ cs = Idle
    /\ ss = Idle
    /\ ek = Idle
    /\ ar = Idle
    /\ rn \in { RnStart(p, l, s, f, c, o) :
                  p \in Providers, l \in LoadResults, s \in PathLists(MaxPaths),
                  f \in BOOLEAN, c \in BOOLEAN, o \in BOOLEAN }
    /\ tl = Idle
    /\ mg = Idle

NextRun ==
    \/ RunLoadConfig
    \/ RunValidate
    \/ RunNewProcessor
    \/ RunProcess
    \/ RunFinish
    \/ Interrupt

SpecRun == InitRun /\ [][NextRun]_vars

\* ------------------------------------------- the progress tracker alone
\* The goroutines that share one tracker: upload workers call Update, the
\* progress reporter calls the read operations.
Callers == {1, 2, 3}

\* tl.th[t]: op the call t is in; pc: idle | lock | drain | write | rlock |
\* read | rlock2 | read2 | eta (GetETA after its GetSpeed call returned);
\* calls: the calls t has made.
\* tl.w: the goroutine that holds the writer mutex rw.w and has announced
\* itself to the readers (0: none); tl.readers: the read locks held;
\* tl.transferred: the tally.
TlStart ==
    [pc |-> "run",
     th |-> [t \in Callers |-> [op |-> "none", pc |-> "idle", calls |-> 0]],
     w |-> 0, readers |-> 0, transferred |-> 0]

\* A goroutine calls one of the tracker's operations and arrives at the
\* operation's first statement: t.mu.Lock() or t.mu.RLock().
TrackerCall(t, op) ==
    /\ tl.pc = "run"
    /\ tl.th[t].pc = "idle"
    /\ tl.th[t].calls < MaxTrackerCalls
    /\ tl' = [tl EXCEPT !.th[t] = [op |-> op,
                                   pc |-> IF op = "Update" THEN "lock" ELSE "rlock",
                                   calls |-> tl.th[t].calls + 1]]
    /\ UNCHANGED << rn, mg, pipeVars, cs, ss, ek, ar >>

\* sync.RWMutex.Lock, first half: the writer takes rw.w and announces
\* itself; from now on RLock calls wait.
MuLock(t) ==
    /\ tl.pc = "run"
    /\ tl.th[t].pc = "lock"
    /\ tl.w = 0
    /\ tl' = [tl EXCEPT !.w = t, !.th[t].pc = "drain"]
    /\ UNCHANGED << rn, mg, pipeVars, cs, ss, ek, ar >>

\* sync.RWMutex.Lock, second half: the writer waits until the read locks
\* held at its announcement are released.
MuLockAcquired(t) ==
    /\ tl.pc = "run"
    /\ tl.th[t].pc = "drain"
    /\ tl.readers = 0
    /\ tl' = [tl EXCEPT !.th[t].pc = "write"]
    /\ UNCHANGED << rn, mg, pipeVars, cs, ss, ek, ar >>

\* Update's body under the write lock, and the Unlock that ends it.
UpdateBody(t) ==
    /\ tl.pc = "run"
    /\ tl.th[t].pc = "write"
    /\ tl' = [tl EXCEPT !.transferred = tl.transferred + 1, !.w = 0,
                        !.th[t].pc = "idle"]
    /\ UNCHANGED << rn, mg, pipeVars, cs, ss, ek, ar >>

\* sync.RWMutex.RLock: granted unless a writer holds the lock or waits
\* for it. GetETA goes on to call GetSpeed, which takes the read lock a
\* second time.
MuRLock(t) ==
    /\ tl.pc = "run"
    /\ tl.th[t].pc \in {"rlock", "rlock2"}
    /\ tl.w = 0
    /\ tl' = [tl EXCEPT !.readers = tl.readers + 1,
                        !.th[t].pc = IF tl.th[t].pc = "rlock2" THEN "read2"
                                     ELSE IF tl.th[t].op = "GetETA" THEN "rlock2"
                                     ELSE "read"]
    /\ UNCHANGED << rn, mg, pipeVars, cs, ss, ek, ar >>

\* The deferred RUnlock of GetProgress, of GetSpeed (also when GetETA
\* called it) and of GetETA.
MuRUnlock(t) ==
    /\ tl.pc = "run"
    /\ tl.th[t].pc \in {"read", "read2", "eta"}
    /\ tl' = [tl EXCEPT !.readers = tl.readers - 1,
                        !.th[t].pc = IF tl.th[t].pc = "read2" THEN "eta" ELSE "idle"]
    /\ UNCHANGED << rn, mg, pipeVars, cs, ss, ek, ar >>

InitTracker ==
    /\ AtRest(Settings(<< >>, FALSE, 1, 0))
    /\ cs = Idle
    /\ ss = Idle
    /\ ek = Idle
    /\ ar = Idle
    /\ rn = Idle
    /\ tl = TlStart
    /\ mg = Idle

NextTracker ==
    \/ \E t \in Callers, op \in {"Update", "GetProgress", "GetSpeed", "GetETA"} :
          TrackerCall(t, op)
    \/ \E t \in Callers : MuLock(t)
    \/ \E t \in Callers : MuLockAcquired(t)
    \/ \E t \in Callers : UpdateBody(t)
    \/ \E t \in Callers : MuRLock(t)
    \/ \E t \in Callers : MuRUnlock(t)

SpecTracker == InitTracker /\ [][NextTracker]_vars

\* --------------------------------------------------- the Mega adapter alone
\* The chunk plan the library derives from the size NewUpload was given:
\* chunk i holds i units, the last one what is left, so that the chunks
\* add up to the size exactly.
RECURSIVE MegaChunkSizes(_, _)
MegaChunkSizes(size, i) ==
    IF size <= 0 THEN << >>
    ELSE LET chunk == IF size < i * MegaChunk THEN size ELSE i * MegaChunk
         IN << chunk >> \o MegaChunkSizes(size - chunk, i + 1)

\* mg.pc: start | loop | read | upload | finish | returned
\* mg.est: estimatedSize; mg.stream: the items the reader delivers before
\* EOF; mg.pos: items read; mg.chunks: the chunk plan; mg.chunkID: the
\* loop variable; mg.cur: chunkData; mg.uploaded: the items UploadChunk
\* accepted; mg.finishes: calls of upload.Finish; mg.err: the result.
MgStart(est, len) ==
    [pc |-> "start", est |-> est, stream |-> [i \in 1..len |-> i], pos |-> 0,
     chunks |-> << >>, chunkID |-> 0, cur |-> << >>, uploaded |-> << >>,
     finishes |-> 0, ctx |-> "live", err |-> NoErr]

MgReturn(m, e) == [m EXCEPT !.pc = "returned", !.err = e]

\* m.client.NewUpload(root, m.config.Filename, estimatedSize).
MegaNewUpload ==
    /\ mg.pc = "start"
    /\ \E ok \in BOOLEAN :
          mg' = IF ok
                THEN [mg EXCEPT !.pc = "loop",
                                !.chunks = MegaChunkSizes(mg.est, 1)]
                ELSE MgReturn(mg, Err("backend", 0))
    /\ UNCHANGED << rn, tl, pipeVars, cs, ss, ek, ar >>

\* for chunkID := 0; chunkID < upload.Chunks(); chunkID++, and the select
\* on ctx.Done() at the top of the body.
MegaLoop ==
    /\ mg.pc = "loop"
    /\ mg' = IF mg.chunkID >= Len(mg.chunks) THEN [mg EXCEPT !.pc = "finish"]
             ELSE IF mg.ctx = "cancelled" THEN MgReturn(mg, Err("canceled", 0))
             ELSE [mg EXCEPT !.pc = "read"]
    /\ UNCHANGED << rn, tl, pipeVars, cs, ss, ek, ar >>

\* io.ReadFull(reader, chunkData) for the size ChunkLocation reports: a
\* read of nothing leaves the loop, a short read is truncated.
MegaReadChunk ==
    /\ mg.pc = "read"
    /\ LET expectedSize == mg.chunks[mg.chunkID + 1]
           left == Len(mg.stream) - mg.pos
           n == IF left < expectedSize THEN left ELSE expectedSize
       IN mg' = IF n = 0 THEN [mg EXCEPT !.pc = "finish"]
                ELSE [mg EXCEPT !.pc = "upload", !.pos = mg.pos + n,
                                !.cur = SubSeq(mg.stream, mg.pos + 1, mg.pos + n)]
    /\ UNCHANGED << rn, tl, pipeVars, cs, ss, ek, ar >>

\* upload.UploadChunk(chunkID, chunkData); after a short chunk the loop
\* is left.
MegaUploadChunk ==
    /\ mg.pc = "upload"
    /\ \E ok \in BOOLEAN :
          mg' = IF ok
                THEN [mg EXCEPT !.uploaded = mg.uploaded \o mg.cur,
                                !.chunkID = mg.chunkID + 1,
                                !.pc = IF Len(mg.cur) < mg.chunks[mg.chunkID + 1]
                                       THEN "finish" ELSE "loop"]
                ELSE MgReturn(mg, Err("backend", 0))
    /\ UNCHANGED << rn, tl, pipeVars, cs, ss, ek, ar >>

\* upload.Finish().
MegaFinish ==
    /\ mg.pc = "finish"
    /\ \E ok \in BOOLEAN :
          mg' = MgReturn([mg EXCEPT !.finishes = mg.finishes + 1],
                         IF ok THEN NoErr ELSE Err("backend", 0))
    /\ UNCHANGED << rn, tl, pipeVars, cs, ss, ek, ar >>

\* The context is cancelled while UploadStream runs.
MegaCancel ==
    /\ mg.pc \in {"start", "loop", "read", "upload", "finish"}
    /\ mg.ctx = "live"
    /\ mg' = [mg EXCEPT !.ctx = "cancelled"]
    /\ UNCHANGED << rn, tl, pipeVars, cs, ss, ek, ar >>

\* The estimate is the sum of the file sizes; the stream is the archive,
\* longer than the estimate by its headers and footer, or a shorter one
\* when the packer stopped early.
InitMega ==
    /\ AtRest(Settings(<< >>, FALSE, 1, 0))
    /\ cs = Idle
    /\ ss = Idle
    /\ ek = Idle
    /\ ar = Idle
    /\ rn = Idle
    /\ tl = Idle
    /\ mg \in { MgStart(est, len) :
                  est \in 0..MaxEstimate, len \in 0..(MaxEstimate + MaxOverhead) }
    /\ Len(mg.stream) <= mg.est + MaxOverhead

NextMega ==
    \/ MegaNewUpload
    \/ MegaLoop
    \/ MegaReadChunk
    \/ MegaUploadChunk
    \/ MegaFinish
    \/ MegaCancel

SpecMega == InitMega /\ [][NextMega]_vars

\* ------------------------------------------------------------ properties

\* C1: once uploadMultipart has returned, Abort was invoked on the session
\* exactly once if it returned an error and never if it returned nil.
C1_AbortIffError ==
    main.um = "returned" =>
        remote.aborts = (IF IsNil(main.uploadErr) THEN 0 ELSE 1)

\* C2: in a run without a failed backend call and without cancellation,
\* every part list Complete sends to the backend is 1..N in increasing
\* order, N being the number of chunks the splitter enqueued.
C2_CompleteListOrdered ==
    (fails = 0 /\ ~cancelled) =>
        \A i \in DOMAIN remote.completes :
            remote.completes[i] = [j \in 1..sp.k |-> j]

\* C3: a chunk is uploaded under the part number equal to its position in
\* the stream, whatever the interleaving of the workers (no backend call
\* has failed).
C3_PartNumberIsStreamPosition ==
    fails = 0 =>
        \A w \in Workers :
            wk[w].pc = "call" => wk[w].partNum = wk[w].part.idx

\* C4: while a worker is in UploadPart for a chunk, the bytes behind the
\* chunk's payload are the bytes the splitter read for that chunk.
C4_PayloadIsChunk ==
    \A w \in Workers :
        wk[w].pc = "call" => Data(wk[w].part) = wk[w].part.orig

\* C5: when Compress failed with a local I/O error, Complete is not
\* invoked in that run.
C5_NoCompleteAfterPackerFailure ==
    pk.err.kind = "io" => remote.completes = << >>

\* C6: when cancellation fired before the stream was uploaded and
\* completed (and no backend call failed on its own), the error Process
\* returns is or wraps the cancellation error.
C6_CancellationReported ==
    ( /\ main.pc = "returned"
      /\ cancelled
      /\ fails = 0
      /\ ~remote.committed
      /\ remote.puts = << >> )
    => main.result.err.kind = "canceled"

\* The splitter is blocked for good on its send into the full chunk queue:
\* every worker has returned.
SplitterStuck ==
    /\ sp.pc \in {"send", "sendlast"}
    /\ Len(partChan.q) = cfg.workers
    /\ \A w \in Workers : wk[w].pc = "exit"

\* The cipher is blocked for good on its write to P2: the splitter, the
\* only reader, has returned.
CipherStuck ==
    /\ CiWriting
    /\ sp.pc = "done"

\* C7: when Process has returned, no goroutine it started is left blocked
\* on a channel send or a pipe write.
C7_NoGoroutineLeftBlocked ==
    main.pc = "returned" => ~SplitterStuck /\ ~CipherStuck

\* C8: uploadPartWithRetry makes at most three UploadPart attempts for a
\* chunk, none after a successful one, and returns its terminal failure
\* only after exactly three failed attempts.
C8_ThreeAttempts ==
    \A w \in Workers :
        /\ wk[w].tries <= 3
        /\ wk[w].okTries <= 1
        /\ wk[w].okTries = 1 => wk[w].pc \in {"recv", "exit", "crashed"}
        /\ wk[w].err.kind = "exhausted" =>
              wk[w].tries = 3 /\ wk[w].okTries = 0

\* A worker returns the terminal failure after three failed attempts.
C8_Witness ==
    \E w \in Workers :
        /\ wk[w].pc = "senderr"
        /\ wk[w].err.kind = "exhausted"
        /\ wk[w].tries = 3

\* C9: the terminal error of uploadPartWithRetry carries the backend error
\* of the last attempt.
C9_TerminalErrorCarriesCause ==
    \A w \in Workers :
        (wk[w].err.kind = "exhausted" /\ wk[w].lastErr.kind = "backend")
        => wk[w].err.cause = wk[w].lastErr.cause

\* C10: every attempt for a chunk uses the part number of the chunk's
\* first attempt.
C10_RetryKeepsPartNumber ==
    \A w \in Workers :
        wk[w].pc = "call" => wk[w].partNum = wk[w].firstPn

\* C11: when Compress has returned an error (a failed stat/open/read, or
\* cancellation seen between or inside entries), no end-of-archive marker
\* has been written to the output.
C11_NoMarkerAfterFailure ==
    (pk.pc = "done" /\ ~IsNil(pk.err)) => pk.marks = 0

\* C12: when a write of the packer hit the closed read half of its pipe
\* (and Compress did not see the cancellation), Compress returns nil,
\* for a directory source as for a single-file source.
C12_ClosedPipeIsSuccess ==
    (pk.pc = "done" /\ pk.twErr /\ pk.err.kind # "canceled") => IsNil(pk.err)

\* C13: when UploadStream failed and Compress failed only with the closed
\* pipe, Process returns the upload error.
C13_UploadErrorReported ==
    ( /\ main.pc = "returned"
      /\ ~IsNil(main.uploadErr)
      /\ pk.err.kind = "closedpipe" )
    => main.result = [stage |-> "upload", err |-> main.uploadErr]

\* A worker has published the terminal failure of a chunk on errorChan
\* and returned.
Published(w) == wk[w].pc = "exit" /\ wk[w].err.kind = "exhausted"

\* C14: once a worker has published a terminal failure, no other worker
\* goes from dequeuing a chunk to an UploadPart call for it, and the
\* splitter does not go on to read another chunk.
C14_FailureStopsSiblings ==
    [][ (\E w \in Workers : Published(w)) =>
            /\ \A v \in Workers : wk[v].pc = "recv" => wk'[v].pc # "begin"
            /\ sp.pc = "check" => sp'.pc # "read" ]_vars

\* C15: once cancellation has fired, the splitter is not blocked for good
\* on its send into the chunk queue.
C15_CancelledSplitterNotStuck ==
    cancelled => ~SplitterStuck

\* C16: when EncryptStream returned an error, Process does not return
\* success.
C16_CipherErrorReported ==
    (main.pc = "returned" /\ ~IsNil(ci.err)) => ~IsNil(main.result.err)

\* The nonce read as a big-endian counter, plus k: the bytes of the sum
\* and whether it carried out of the first byte.
RECURSIVE PlusFrom(_, _, _)
PlusFrom(nonce, i, carry) ==
    IF i = 0 THEN [bytes |-> nonce, wrapped |-> carry > 0]
    ELSE LET v == nonce[i] + carry
         IN PlusFrom([nonce EXCEPT ![i] = v % 256], i - 1, v \div 256)

Plus(nonce, k) == PlusFrom(nonce, Len(nonce), k)

\* The frames EncryptStream has written, whatever stage the run is in.
Frames == IF cs.pc = "idle" THEN << >> ELSE cs.frames

\* C17: frame i (counted from 0) is sealed with the initial nonce plus i,
\* a big-endian counter over the whole nonce, and the frames sealed before
\* the counter wraps have pairwise different nonces.
C17_NonceIsBigEndianCounter ==
    /\ \A i \in DOMAIN Frames :
          Frames[i].ct.nonce = Plus(cs.nonce0, i - 1).bytes
    /\ \A i, j \in DOMAIN Frames :
          (i < j /\ ~Plus(cs.nonce0, j - 1).wrapped)
          => Frames[i].ct.nonce # Frames[j].ct.nonce

\* Two frames are sealed and the increment between them carried from the
\* last byte into the byte before it.
C17_Witness ==
    /\ Len(Frames) >= 2
    /\ Frames[1].ct.nonce[NonceSize] = 255
    /\ Frames[1].ct.nonce[NonceSize - 1] = 7
    /\ Frames[2].ct.nonce[NonceSize - 1] = 8
    /\ Frames[2].ct.nonce[NonceSize] = 0

\* C18: EncryptStream seals no frame with a counter that has wrapped
\* around (it fails at the increment that overflows).
C18_OverflowIsFatal ==
    \A i \in DOMAIN Frames : ~Plus(cs.nonce0, i - 1).wrapped

RECURSIVE Joined(_, _)
Joined(segs, pos) ==
    IF segs = << >> THEN pos
    ELSE IF Head(segs).off # pos THEN -1
    ELSE Joined(Tail(segs), pos + Head(segs).n)

C20_TamperingDetected ==
    ( /\ cs.pc = "decrypted"
      /\ cs.tamper.kind # "none"
      /\ cs.frames[cs.tamper.i].ct.chunk.n > 0 )
    => ~IsNil(cs.decErr)


\* The in-progress uploads of the bucket that carry the object name of
\* the run.
SameName == { i \in 1..Len(cfg.uploads) : cfg.uploads[i].key = Key }

\* C21: CheckResumability adopts an in-progress upload only when exactly
\* one exists for the object name; with two or more it returns none.
C21_AdoptsOnlyUnique ==
    main.resumable.id # 0 => Cardinality(SameName) = 1

\* C22: with resume enabled and an in-progress upload found, the run
\* continues that upload: no new multipart session is created.
C22_ResumeCreatesNoSession ==
    (cfg.resume /\ main.resumable.id # 0) =>
        (remote.creates = 0 /\ ~mp.created)


\* C23: Abort never reports failure and is idempotent: every call of
\* Abort returns nil, whether or not the backend's abort succeeded, and
\* a call of Abort right after one the backend accepted leaves the
\* session and the backend as the first call left them.
C23_AbortNeverFails ==
    /\ [](\A i \in 1..Len(ss.abortResults) : IsNil(ss.abortResults[i]))
    /\ [][ ( /\ ss.pc = "open"
             /\ ss.last = [call |-> "Abort", ok |-> TRUE]
             /\ ss'.calls = ss.calls + 1
             /\ ss'.last.call = "Abort" )
           => SsState(ss') = SsState(ss) ]_vars


\* A part list with a missing or a repeated part number, and one in
\* ascending order of part numbers.
HasGap(parts) == { parts[i] : i \in 1..Len(parts) } # 1..Len(parts)
HasDuplicate(parts) ==
    \E i, j \in 1..Len(parts) : i < j /\ parts[i] = parts[j]
Ascending(parts) ==
    \A i, j \in 1..Len(parts) : i < j => parts[i] < parts[j]

\* C24: Complete returns an error without finalizing when the
\* completed-parts list has a gap or a duplicate part number (stated for
\* the lists in ascending order, which the backend accepts).
C24_CompleteRejectsGaps ==
    ( /\ main.um = "returned"
      /\ remote.completes # << >>
      /\ Ascending(mp.parts)
      /\ HasGap(mp.parts) \/ HasDuplicate(mp.parts) )
    => (~IsNil(main.uploadErr) /\ ~remote.committed)


\* C25: a permanent backend error on a part upload is fatal at once: the
\* worker makes no second attempt for the chunk and goes on to publish
\* the error after the first attempt.
C25_PermanentErrorNotRetried ==
    \A w \in Workers :
        wk[w].lastErr.kind = "denied" =>
            (wk[w].tries = 1 /\ wk[w].pc \in { "senderr", "exit" })


\* C26: a configuration with workers <= 0 is rejected before any remote
\* call is made and before any pipeline goroutine is started.
C26_ConfigValidatedFirst ==
    cfg.workers <= 0 =>
        ( /\ remote = RemoteInit
          /\ pk.pc = "idle"
          /\ sp.pc = "idle" )


\* The key material GetEncryptionKey is to use: the configuration
\* file's, else the environment's, else the built-in default.
MaterialOf(c) ==
    IF c.file # << >> THEN c.file
    ELSE IF c.env # << >> THEN c.env
    ELSE DefaultKey

\* C27: GetEncryptionKey returns exactly KeyLen bytes, the key material
\* zero-padded or truncated, whether the material is the environment's,
\* the built-in default or the configuration file's; every further call
\* returns the same bytes.
C27_KeyIsKeyLenBytes ==
    \A i \in 1..Len(ek.results) :
        /\ Len(ek.results[i]) = KeyLen
        /\ \A j \in 1..KeyLen :
              ek.results[i][j] = IF j <= Len(MaterialOf(ek))
                                 THEN MaterialOf(ek)[j] ELSE 0
        /\ ek.results[i] = ek.results[1]


\* A successful multipart run in which an attempt failed and the last
\* chunk is a short one.
C28_Witness ==
    /\ mp.created
    /\ main.um = "returned"
    /\ IsNil(main.uploadErr)
    /\ remote.committed
    /\ fails > 0
    /\ tracker > ChunkSize
    /\ tracker % ChunkSize # 0

\* C28: during a multipart run the tracker's transferred value never
\* decreases; it grows by the part's length when, and only when, an
\* UploadPart attempt is acknowledged, and a failed attempt leaves it
\* unchanged; after a successful run it is the number of items of the
\* uploaded stream.
C28_TrackerCountsAckedBytes ==
    /\ [][ mp.created =>
             /\ tracker' >= tracker
             /\ \A w \in Workers :
                   (wk[w].pc = "call" /\ wk'[w].pc = "recv")
                       => tracker' = tracker + wk[w].part.n
             /\ \A w \in Workers :
                   (wk[w].pc = "call" /\ wk'[w].pc \in { "backoff", "senderr" })
                       => tracker' = tracker
             /\ tracker' # tracker
                   => \E w \in Workers :
                         wk[w].pc = "call" /\ wk'[w].pc = "recv" ]_vars
    /\ []( ( /\ mp.created
             /\ main.um = "returned"
             /\ IsNil(main.uploadErr) )
           => tracker = Len(sp.read) )


\* The entries a run wrote for source i, in the order written.
RECURSIVE EntriesOf(_, _)
EntriesOf(entries, i) ==
    IF entries = << >> THEN << >>
    ELSE IF Head(entries).src = i
         THEN << Head(entries).name >> \o EntriesOf(Tail(entries), i)
         ELSE EntriesOf(Tail(entries), i)

\* The relative paths of all that lies below a directory source.
Descendants(src) ==
    { << n >> : n \in { m \in Names : src.tree.top[m] # "absent" } }
    \cup { << p[1], p[2] >> : p \in { q \in Names \X Names :
                                        q[2] \in src.tree.kids[q[1]] } }

\* a comes before b in lexical depth-first order: at the first
\* component where they differ a's is the smaller, or a is a proper
\* prefix of b.
LexBefore(a, b) ==
    \/ Len(a) < Len(b) /\ SubSeq(b, 1, Len(a)) = a
    \/ \E k \in 1..Len(a) :
          /\ k <= Len(b)
          /\ SubSeq(a, 1, k - 1) = SubSeq(b, 1, k - 1)
          /\ a[k] < b[k]

\* Two sources, the first a directory with a file in a subdirectory and
\* something after the subdirectory.
C29_Witness ==
    /\ ar.pc = "again"
    /\ Len(ar.sources) = 2
    /\ ar.sources[1].isDir
    /\ ar.sources[1].tree.top[1] = "dir"
    /\ ar.sources[1].tree.kids[1] = Names
    /\ ar.sources[1].tree.top[2] = "file"
    /\ ~ar.sources[2].isDir
    /\ Len(ar.entries) = 6

\* C29: the entries of source i precede those of source i+1; a file
\* source yields one entry named after its base name; a directory
\* source yields its base name with "/" and then one entry per
\* descendant, named base name "/" relative path, in lexical
\* depth-first order; a second run yields the same entries.
C29_EntryNamesAndOrder ==
    ar.pc \in { "done", "again" } =>
        /\ \A j, k \in 1..Len(ar.entries) :
              j < k => ar.entries[j].src <= ar.entries[k].src
        /\ \A i \in 1..Len(ar.sources) :
              LET src == ar.sources[i]
                  base == src.path[Len(src.path)]
                  es == EntriesOf(ar.entries, i)
              IN IF ~src.isDir
                 THEN es = << [parts |-> << base >>, slash |-> FALSE] >>
                 ELSE /\ Len(es) = 1 + Cardinality(Descendants(src))
                      /\ es[1] = [parts |-> << base >>, slash |-> TRUE]
                      /\ { es[k] : k \in 2..Len(es) }
                           = { [parts |-> << base >> \o d, slash |-> FALSE] :
                                   d \in Descendants(src) }
                      /\ \A k \in 2..(Len(es) - 1) :
                            LexBefore(es[k].parts, es[k + 1].parts)
        /\ ar.pc = "again" => ar.second = ar.entries


\* The items of the stream that make up its idx-th chunk of n items.
Segment(idx, n) ==
    SubSeq(sp.read, (idx - 1) * ChunkSize + 1, (idx - 1) * ChunkSize + n)

\* C30: every chunk on the queue has 1..ChunkSize items, and ChunkSize
\* items unless it is the last one enqueued; its bytes are the stream's
\* at its position, so that the chunks in order make up the stream; a
\* splitter that stopped at the end of the stream enqueued all it read.
C30_ChunksPartitionStream ==
    /\ \A i \in 1..Len(partChan.q) :
          LET part == partChan.q[i]
          IN /\ part.n >= 1
             /\ part.n <= ChunkSize
             /\ part.idx < sp.k => part.n = ChunkSize
             /\ Data(part) = Segment(part.idx, part.n)
    /\ (sp.pc = "done" /\ ~cancelled /\ ~FrClosed)
          => sp.k * ChunkSize >= Len(sp.read)


\* C31: under fair scheduling Process returns in every run with
\* workers >= 1, also when cancellation fires or a worker fails
\* terminally.
C31_ProcessReturns ==
    cfg.workers >= 1 => <>(main.pc = "returned")


\* C37: no goroutine sends on errorChan after it was closed: the
\* send-on-closed-channel panic is unreachable (stated for the runs
\* that have a worker).
C37_NoSendOnClosedChannel ==
    cfg.workers >= 1 => ~panicked


\* C32: run never ends through a hard exit: after Process returned nil
\* run returns to its caller, for every provider, and the deferred
\* cancel() has run.
C32_NoHardExit ==
    /\ rn.end # "exited"
    /\ (rn.pc = "done" /\ rn.processed)
          => (rn.end = "returned" /\ rn.ctx = "cancelled")

\* The failed UploadPart attempts worker w has made for its current chunk.
FailedTries(w) == wk[w].tries - wk[w].okTries

\* C33: after the first failed attempt for a chunk uploadPartWithRetry waits
\* 1 s, after the second 2 s, and after the third it waits no more: the
\* waits for one chunk are the first FailedTries of << 1, 2 >>.
C33_BackoffSchedule ==
    \A w \in Workers :
        /\ wk[w].waits = SubSeq(<< 1, 2 >>, 1,
                                 IF FailedTries(w) >= 3 THEN 2 ELSE FailedTries(w))
        /\ wk[w].pc = "backoff" => FailedTries(w) \in {1, 2}

\* A worker has failed three times on one chunk, has waited 1 s and 2 s,
\* and is about to return the terminal failure without a third wait.
C33_Witness ==
    \E w \in Workers :
        /\ wk[w].pc = "senderr"
        /\ wk[w].err.kind = "exhausted"
        /\ wk[w].tries = 3
        /\ wk[w].waits = << 1, 2 >>

\* C34: a worker waiting in a backoff delay when the context is cancelled
\* leaves the wait with the cancellation error and makes no further
\* UploadPart attempt for that chunk.
C34_CancelDuringBackoff ==
    [][\A w \in Workers :
          (wk[w].pc = "backoff" /\ cancelled /\ wk'[w] # wk[w]) =>
              /\ wk'[w].pc = "senderr"
              /\ wk'[w].err = Err("canceled", 0)
              /\ wk'[w].tries = wk[w].tries
              /\ wk'[w].attempt = wk[w].attempt]_vars

\* A worker that failed an attempt and was cancelled in the wait is about to
\* publish the cancellation error, with attempts still left.
C34_Witness ==
    \E w \in Workers :
        /\ wk[w].pc = "senderr"
        /\ wk[w].err = Err("canceled", 0)
        /\ wk[w].tries \in 1 .. (maxRetries - 1)
        /\ wk[w].okTries = 0
        /\ wk[w].waits # << >>

\* C35: with an estimate of at most chunk_size UploadStream creates no
\* multipart session and, once it has returned, has made exactly one
\* PutObject call, whose body is the whole stream read up to EOF; with a
\* larger estimate it makes no PutObject call and creates exactly one
\* multipart session.
C35_SmallUploadsUsePutObject ==
    /\ EstimateSize(cfg.sources) <= ChunkSize =>
          /\ remote.creates = 0
          /\ ~mp.created
          /\ Len(remote.putCalls) <= 1
          /\ main.pc \notin {"start", "upload", "sp_copy", "put"} =>
                /\ remote.putCalls = << main.buf >>
                /\ FwClosed
                /\ (IsNil(pk.err) /\ ~cfg.encrypt) =>
                       /\ main.buf[Len(main.buf)] = Footer
                       /\ Len(main.buf) > EstimateSize(cfg.sources)
    /\ EstimateSize(cfg.sources) > ChunkSize =>
          /\ remote.putCalls = << >>
          /\ remote.creates <= 1
          /\ main.pc \notin {"start", "upload"} => remote.creates = 1

\* A run whose estimate is exactly chunk_size has returned after its one
\* PutObject call stored the whole archive.
C35_Witness ==
    /\ EstimateSize(cfg.sources) = ChunkSize
    /\ main.pc = "returned"
    /\ Len(remote.puts) = 1
    /\ remote.puts[1][Len(remote.puts[1])] = Footer

\* The call goroutine t is in cannot take its next step.
TlBlocked(t) ==
    \/ tl.th[t].pc = "lock" /\ tl.w # 0
    \/ tl.th[t].pc = "drain" /\ tl.readers > 0
    \/ tl.th[t].pc \in {"rlock", "rlock2"} /\ tl.w # 0

\* C36: tracker calls never deadlock: whenever some call is in progress,
\* some call in progress can take its next step (in particular GetETA is
\* never left waiting for its second read lock behind a writer that waits
\* for GetETA's first one).
C36_TrackerCallsNeverDeadlock ==
    tl.pc = "run" =>
        \/ \A t \in Callers : tl.th[t].pc = "idle"
        \/ \E t \in Callers : tl.th[t].pc # "idle" /\ ~TlBlocked(t)

\* C38: the part numbers UploadPart calls take are 1, 2, 3, ... without a
\* repetition or a gap, in every interleaving; two calls in flight never
\* hold the same number, and the completed-parts list holds no number
\* twice.
C38_PartNumbersAllocatedAtomically ==
    /\ mp.handed = [i \in 1..Len(mp.handed) |-> i]
    /\ mp.partNumber = Len(mp.handed) + 1
    /\ \A v, w \in Workers :
          (v # w /\ wk[v].pc = "call" /\ wk[w].pc = "call")
              => wk[v].partNum # wk[w].partNum
    /\ ~HasDuplicate(mp.parts)
    /\ \A i \in 1..Len(mp.parts) : mp.parts[i] \in 1..Len(mp.handed)

\* Two UploadPart calls are in flight at once, each with its own number.
C38_Witness ==
    \E v, w \in Workers :
        /\ v # w
        /\ wk[v].pc = "call"
        /\ wk[w].pc = "call"
        /\ wk[v].partNum # wk[w].partNum
        /\ Len(mp.handed) >= 2

\* C39: when the Mega adapter calls Finish it has read the reader to EOF
\* and uploaded every item of the stream, also when the stream is longer
\* than estimatedSize.
C39_MegaUploadsWholeStream ==
    mg.finishes > 0 => mg.uploaded = mg.stream

\* C40: when the source paths are pairwise distinct, no two entries that
\* Compress writes have the same name.
C40_EntryNamesUnique ==
    ( /\ ar.pc \in {"done", "again"}
      /\ \A i, j \in 1..Len(ar.sources) :
            i < j => ar.sources[i].path # ar.sources[j].path )
    => \A i, j \in 1..Len(ar.entries) :
          i < j => ar.entries[i].name # ar.entries[j].name

====
